---- MODULE Spec2Model ----
(***************************************************************************)
(* The node-session fan-out engine (LockFreeBatcher) of                    *)
(* src/hscontrol/mapper/batcher_lockfree.go as a state machine.            *)
(*                                                                         *)
(* Every goroutine that calls into the batcher is a process with a program *)
(* counter; one step of a process is one operation on shared memory (one   *)
(* xsync.Map operation, one critical section of a connection set's mutex,   *)
(* one channel operation), so that every interleaving of the handlers is a *)
(* behaviour of the model.  A Range over an xsync.Map is taken as a        *)
(* snapshot of the map at the moment the Range starts.                     *)
(*                                                                         *)
(* Time is the wall clock in seconds.  It advances in steps of TimeStep (or *)
(* LongStep), longer than any handler runs (the longest wait inside a      *)
(* handler is the 5-second deadline of the initial send), so the clock     *)
(* moves only between the executions of handlers.                          *)
(***************************************************************************)
EXTENDS Integers, Sequences, FiniteSets, TLC

\* ------------------------------------------------------------------ bounds
TimeStep == 15           \* the clock's step, in seconds
MaxTime == 60            \* the clock stops here
LongStep == 450          \* the clock's step where the long-offline sweep is checked
LongMaxTime == 1350      \* and where that clock stops
WorkChCap == 2           \* capacity of workCh (set where the batcher is built)
OrderChCap == 2          \* capacity of onlineOfflineOrderCh
MaxSets == 3             \* multiChannelNodeConn objects ever allocated

\* ------------------------------------------------------- program constants
GracePeriod == 45        \* IsConnected: gracePeriod := 45 * time.Second
StaleThreshold == 30     \* cleanupStaleConnections: staleThreshold := int64(30)
CleanupThreshold == 900  \* cleanupOfflineNodes: cleanupThreshold := 15 * time.Minute

\* ------------------------------------------------------------- populations
NodeIDs == {1, 2}        \* types.NodeID
AddNodeCalls == {1, 2, 3}   \* AddNode calls; call p passes its own channel, p
RemoveNodeCalls == {1, 2}
AddWorkCalls == {1, 2}   \* AddWork calls; call k submits the change with id k
Workers == {1, 2}        \* b.workers
Closers == {1, 2}        \* Close calls

NoSet == 0               \* b.nodes has no entry
Absent == -2             \* b.connected has no entry
NilTime == -1            \* b.connected holds nil: connected

VARIABLES
    now,                  \* time.Now(), seconds
    sets,                 \* the multiChannelNodeConn objects: sets[s] is s.connections
    nodes,                \* b.nodes: NodeID -> object, or NoSet
    connected,            \* b.connected: NodeID -> Absent, NilTime or a disconnect time
    workCh,               \* b.workCh, the buffered work items
    workClosed,           \* close(b.workCh) has run
    onlineOfflineOrderCh, \* b.onlineOfflineOrderCh, the buffered ordered items
    orderClosed,          \* close(b.onlineOfflineOrderCh) has run
    ctx,                  \* b.ctx: "live" or "done"
    onlineOfflineSeq,     \* b.onlineOfflineSeq
    pendingChanges,       \* b.pendingChanges: NodeID -> <<changes>>, or NoPending
    sink,                 \* per channel, the map responses its receiver accepted
    addNode,              \* the AddNode calls
    removeNode,           \* the RemoveNode calls
    addWork,              \* the AddWork calls
    worker,               \* the worker goroutines
    ticker,               \* the doWork goroutine
    orderer,              \* the doOnlineOfflineOrdering goroutine
    closer,               \* the Close calls
    panicked,             \* the runtime panic that ended the process, or ""
    enq,                  \* history: how often <<change id, target>> entered workCh
    drainedAt,            \* history: when RemoveNode last emptied the node's set
    store,                \* the routes table and the next id it hands out
    noise,                \* the Noise transport's handlers: the last request and answer
    filter                \* the policy compiler: the policy at hand and its rules

vars == <<now, sets, nodes, connected, workCh, workClosed, onlineOfflineOrderCh,
          orderClosed, ctx, onlineOfflineSeq, pendingChanges, sink, addNode,
          removeNode, addWork, worker, ticker, orderer, closer, panicked, enq,
          drainedAt, store, noise, filter>>

\* the batcher, and what lies outside it
batcher == <<now, sets, nodes, connected, workCh, workClosed, onlineOfflineOrderCh,
             orderClosed, ctx, onlineOfflineSeq, pendingChanges, sink, addNode,
             removeNode, addWork, worker, ticker, orderer, closer, panicked, enq,
             drainedAt>>
others == <<store, noise, filter>>

NoChange == [id |-> 0, kind |-> "none", nodeID |-> 0, selfOnly |-> FALSE, alsoSelf |-> FALSE]
NoPending == <<NoChange>>
NoWork == [c |-> NoChange, nodeID |-> 0, resultCh |-> 0]
NoResult == [status |-> "none", chg |-> 0, ver |-> 0]
Never == -1

\* ---------------------------------------------------------------- changes
ImmediateKinds == {"Full", "NodeRemove", "NodeCameOnline", "NodeWentOffline", "Policy"}
BatchedKinds == {"PeerChanged"}
OrderedKinds == {"NodeCameOnline", "NodeWentOffline"}

\* change.FullSelf(id), the change AddNode call p asks the initial map for
FullSelf(p, id) ==
    [id |-> -p, kind |-> "Full", nodeID |-> id, selfOnly |-> TRUE, alsoSelf |-> TRUE]

AlsoSelf(c) == c.alsoSelf

shouldProcessImmediately(c) == c.kind \in ImmediateKinds

\* the capability version AddNode call p passes
CapVerOf(p) == p

\* ------------------------------------------------------- connection sets
Chans(conns) == {conns[i].c : i \in 1..Len(conns)}

hasActiveConnections(s) == Len(sets[s]) > 0

version(s) == IF Len(sets[s]) = 0 THEN 0 ELSE sets[s][1].version

newEntry(p, t) == [c |-> p, version |-> CapVerOf(p), lastUsed |-> t]

FirstIndex(conns, c) ==
    IF c \in Chans(conns)
    THEN CHOOSE i \in 1..Len(conns) :
            /\ conns[i].c = c
            /\ \A j \in 1..(i - 1) : conns[j].c # c
    ELSE 0

RemoveAt(conns, i) == SubSeq(conns, 1, i - 1) \o SubSeq(conns, i + 1, Len(conns))

\* mutant: the first connection of the set is removed, whatever its channel
removeConnectionByChannel_first(conns, c) ==
    IF FirstIndex(conns, c) = 0 THEN conns ELSE Tail(conns)

removeConnectionByChannel(conns, c) ==
    IF FirstIndex(conns, c) = 0 THEN conns ELSE RemoveAt(conns, FirstIndex(conns, c))

\* ------------------------------------------------------------- the reads
\* mutant: the grace window includes its last instant
IsConnected_inclusive(id) ==
    IF nodes[id] # NoSet /\ hasActiveConnections(nodes[id]) THEN TRUE
    ELSE IF connected[id] = Absent THEN FALSE
    ELSE IF connected[id] = NilTime THEN TRUE
    ELSE now - connected[id] <= GracePeriod

IsConnected(id) ==
    IF nodes[id] # NoSet /\ hasActiveConnections(nodes[id]) THEN TRUE
    ELSE IF connected[id] = Absent THEN FALSE
    ELSE IF connected[id] = NilTime THEN TRUE
    ELSE now - connected[id] < GracePeriod

\* ConnectedMap(): true for the nodes whose set holds a connection, then, for
\* the other entries of b.connected, true for nil and false for a timestamp
ConnectedMap ==
    LET active == {n \in NodeIDs : nodes[n] # NoSet /\ hasActiveConnections(nodes[n])}
        known == {n \in NodeIDs : connected[n] # Absent}
    IN  [n \in active \cup known |-> n \in active \/ connected[n] = NilTime]

\* ------------------------------------------------------------------- Init
\* the store is empty, no request has been served, no policy compiled
NoRoutes == [rows |-> <<>>, nextID |-> 1]
NoRequest == [op |-> "none"]
NoPolicy == [op |-> "none"]

OthersIdle == store = NoRoutes /\ noise = NoRequest /\ filter = NoPolicy

NewBatcher ==
    /\ now = 0
    /\ sets = <<>>
    /\ nodes = [n \in NodeIDs |-> NoSet]
    /\ connected = [n \in NodeIDs |-> Absent]
    /\ workCh = <<>>
    /\ workClosed = FALSE
    /\ onlineOfflineOrderCh = <<>>
    /\ orderClosed = FALSE
    /\ ctx = "live"
    /\ onlineOfflineSeq = 0
    /\ pendingChanges = [n \in NodeIDs |-> NoPending]
    /\ sink = [p \in AddNodeCalls |-> <<>>]
    /\ addNode = [p \in AddNodeCalls |->
                    [pc |-> "idle", id |-> 0, set |-> NoSet, created |-> 0,
                     res |-> NoResult, ret |-> "none"]]
    /\ removeNode = [q \in RemoveNodeCalls |->
                    [pc |-> "idle", id |-> 0, c |-> 0, set |-> NoSet, ret |-> "none"]]
    /\ addWork = [k \in AddWorkCalls |->
                    [pc |-> "idle", c |-> NoChange, known |-> {}, todo |-> {},
                     sent |-> {}, target |-> 0, loaded |-> <<>>, seq |-> 0,
                     after |-> {}]]
    /\ worker = [w \in Workers |-> [pc |-> "idle", item |-> NoWork, err |-> ""]]
    /\ ticker = [pc |-> "idle", todo |-> {}, node |-> 0, batch |-> <<>>]
    /\ orderer = [pc |-> "idle", c |-> NoChange, todo |-> {}, seq |-> 0]
    /\ closer = [z \in Closers |-> "idle"]
    /\ panicked = ""
    /\ enq = [x \in (AddWorkCalls \X NodeIDs) |-> 0]
    /\ drainedAt = [n \in NodeIDs |-> Never]

Init == NewBatcher /\ OthersIdle

\* a runtime panic ends the process
Running == panicked = ""

\* a step of the batcher: it touches nothing outside the batcher
Step == Running /\ UNCHANGED others

\* -------------------------------------------------------------- queueWork
\* select { case b.workCh <- w: ; case <-b.ctx.Done(): return }.  A select whose
\* send case is on a closed channel can choose that case, and the send panics.
Counted(w) ==
    IF w.resultCh = 0 /\ w.c.id \in AddWorkCalls
    THEN [enq EXCEPT ![<<w.c.id, w.nodeID>>] = @ + 1]
    ELSE enq

queueWork(w) ==
    \/ /\ ~workClosed
       /\ Len(workCh) < WorkChCap
       /\ workCh' = Append(workCh, w)
       /\ enq' = Counted(w)
       /\ panicked' = panicked
    \/ /\ ctx = "done"
       /\ UNCHANGED <<workCh, enq, panicked>>
    \/ /\ workClosed
       /\ panicked' = "send on closed channel"
       /\ UNCHANGED <<workCh, enq>>

\* ---------------------------------------------------------------- AddNode
\* b.nodes.LoadOrStore(id, newMultiChannelNodeConn(id, b.mapper))
AddNode_LoadOrStore(p, id) ==
    /\ Step
    /\ addNode[p].pc = "idle"
    /\ IF nodes[id] = NoSet
       THEN /\ Len(sets) < MaxSets
            /\ sets' = Append(sets, <<>>)
            /\ nodes' = [nodes EXCEPT ![id] = Len(sets) + 1]
       ELSE UNCHANGED <<sets, nodes>>
    /\ addNode' = [addNode EXCEPT ![p] =
                     [@ EXCEPT !.pc = "addConnection", !.id = id,
                               !.set = nodes'[id], !.created = now]]
    /\ UNCHANGED <<now, connected, workCh, workClosed, onlineOfflineOrderCh,
                   orderClosed, ctx, onlineOfflineSeq, pendingChanges, sink,
                   removeNode, addWork, worker, ticker, orderer, closer, panicked,
                   enq, drainedAt>>

\* nodeConn.addConnection(newEntry)
AddNode_addConnection(p) ==
    /\ Step
    /\ addNode[p].pc = "addConnection"
    /\ sets' = [sets EXCEPT ![addNode[p].set] =
                  Append(@, newEntry(p, addNode[p].created))]
    /\ addNode' = [addNode EXCEPT ![p].pc = "queueWork"]
    /\ drainedAt' = [drainedAt EXCEPT ![addNode[p].id] = Never]
    /\ UNCHANGED <<now, nodes, connected, workCh, workClosed, onlineOfflineOrderCh,
                   orderClosed, ctx, onlineOfflineSeq, pendingChanges, sink,
                   removeNode, addWork, worker, ticker, orderer, closer, panicked,
                   enq>>

\* MapResponseFromChange: b.queueWork(work{c, id, resultCh})
AddNode_queueWork(p) ==
    /\ Step
    /\ addNode[p].pc = "queueWork"
    /\ queueWork([c |-> FullSelf(p, addNode[p].id), nodeID |-> addNode[p].id,
                  resultCh |-> p])
    /\ addNode' = [addNode EXCEPT ![p].pc = "awaitResult"]
    /\ UNCHANGED <<now, sets, nodes, connected, workClosed, onlineOfflineOrderCh,
                   orderClosed, ctx, onlineOfflineSeq, pendingChanges, sink,
                   removeNode, addWork, worker, ticker, orderer, closer, drainedAt>>

\* MapResponseFromChange: select { case result := <-resultCh: ; case <-b.ctx.Done(): }
\* and AddNode's handling of the error or of a nil map.
AddNode_awaitResult(p) ==
    /\ Step
    /\ addNode[p].pc = "awaitResult"
    /\ \/ /\ addNode[p].res.status = "ok"
          /\ addNode' = [addNode EXCEPT ![p].pc = "sendInitial"]
          /\ UNCHANGED sets
       \/ /\ addNode[p].res.status = "nil"
          /\ addNode' = [addNode EXCEPT ![p].pc = "storeConnected"]
          /\ UNCHANGED sets
       \/ /\ addNode[p].res.status \in {"err", "notFound"}
          /\ sets' = [sets EXCEPT ![addNode[p].set] = removeConnectionByChannel(@, p)]
          /\ addNode' = [addNode EXCEPT ![p] =
                           [@ EXCEPT !.pc = "done", !.ret = "errGenerate"]]
       \/ /\ ctx = "done"
          /\ sets' = [sets EXCEPT ![addNode[p].set] = removeConnectionByChannel(@, p)]
          /\ addNode' = [addNode EXCEPT ![p] =
                           [@ EXCEPT !.pc = "done", !.ret = "errShutdown"]]
    /\ UNCHANGED <<now, nodes, connected, workCh, workClosed, onlineOfflineOrderCh,
                   orderClosed, ctx, onlineOfflineSeq, pendingChanges, sink,
                   removeNode, addWork, worker, ticker, orderer, closer, panicked,
                   enq, drainedAt>>

\* mutant: the channel stays in the set after the deadline
initialSendTimeout_keeps(conns, c) == conns

\* what AddNode does when the 5-second deadline of the initial send elapses
initialSendTimeout(conns, c) == removeConnectionByChannel(conns, c)

\* select { case c <- initialMap: ; case <-time.After(5 * time.Second): }
\* The receiver takes the map, or it does not within the deadline.
AddNode_sendInitial(p) ==
    /\ Step
    /\ addNode[p].pc = "sendInitial"
    /\ \/ /\ sink' = [sink EXCEPT ![p] =
                        Append(@, [chg |-> addNode[p].res.chg, ver |-> addNode[p].res.ver])]
          /\ addNode' = [addNode EXCEPT ![p].pc = "storeConnected"]
          /\ UNCHANGED sets
       \/ /\ sets' = [sets EXCEPT ![addNode[p].set] = initialSendTimeout(@, p)]
          /\ addNode' = [addNode EXCEPT ![p] =
                           [@ EXCEPT !.pc = "done", !.ret = "errTimeout"]]
          /\ UNCHANGED sink
    /\ UNCHANGED <<now, nodes, connected, workCh, workClosed, onlineOfflineOrderCh,
                   orderClosed, ctx, onlineOfflineSeq, pendingChanges,
                   removeNode, addWork, worker, ticker, orderer, closer, panicked,
                   enq, drainedAt>>

\* b.connected.Store(id, nil)
AddNode_storeConnected(p) ==
    /\ Step
    /\ addNode[p].pc = "storeConnected"
    /\ connected' = [connected EXCEPT ![addNode[p].id] = NilTime]
    /\ addNode' = [addNode EXCEPT ![p] = [@ EXCEPT !.pc = "done", !.ret = "ok"]]
    /\ drainedAt' = [drainedAt EXCEPT ![addNode[p].id] = Never]
    /\ UNCHANGED <<now, sets, nodes, workCh, workClosed, onlineOfflineOrderCh,
                   orderClosed, ctx, onlineOfflineSeq, pendingChanges, sink,
                   removeNode, addWork, worker, ticker, orderer, closer, panicked,
                   enq>>

AddNode(p, ids) ==
    \/ \E id \in ids : AddNode_LoadOrStore(p, id)
    \/ AddNode_addConnection(p)
    \/ AddNode_queueWork(p)
    \/ AddNode_awaitResult(p)
    \/ AddNode_sendInitial(p)
    \/ AddNode_storeConnected(p)

\* ------------------------------------------------------------- RemoveNode
\* nodeConn, exists := b.nodes.Load(id)
RemoveNode_Load(q, id, c) ==
    /\ Step
    /\ removeNode[q].pc = "idle"
    /\ removeNode' = [removeNode EXCEPT ![q] =
          IF nodes[id] = NoSet
          THEN [@ EXCEPT !.pc = "done", !.id = id, !.c = c, !.ret = "false"]
          ELSE [@ EXCEPT !.pc = "remove", !.id = id, !.c = c, !.set = nodes[id]]]
    /\ UNCHANGED <<now, sets, nodes, connected, workCh, workClosed,
                   onlineOfflineOrderCh, orderClosed, ctx, onlineOfflineSeq,
                   pendingChanges, sink, addNode, addWork, worker, ticker, orderer,
                   closer, panicked, enq, drainedAt>>

\* removed := nodeConn.removeConnectionByChannel(c)
RemoveNode_remove(q) ==
    LET s == removeNode[q].set
        c == removeNode[q].c
        removed == c \in Chans(sets[s])
    IN  /\ Step
        /\ removeNode[q].pc = "remove"
        /\ sets' = [sets EXCEPT ![s] = removeConnectionByChannel(@, c)]
        /\ removeNode' = [removeNode EXCEPT ![q] =
              IF removed THEN [@ EXCEPT !.pc = "check"]
              ELSE [@ EXCEPT !.pc = "done", !.ret = "false"]]
        /\ drainedAt' = IF removed /\ Len(sets'[s]) = 0 /\ nodes[removeNode[q].id] = s
                        THEN [drainedAt EXCEPT ![removeNode[q].id] = now]
                        ELSE drainedAt
        /\ UNCHANGED <<now, nodes, connected, workCh, workClosed,
                       onlineOfflineOrderCh, orderClosed, ctx, onlineOfflineSeq,
                       pendingChanges, sink, addNode, addWork, worker, ticker,
                       orderer, closer, panicked, enq>>

\* if nodeConn.hasActiveConnections() { return true }
RemoveNode_check(q) ==
    /\ Step
    /\ removeNode[q].pc = "check"
    /\ removeNode' = [removeNode EXCEPT ![q] =
          IF hasActiveConnections(removeNode[q].set)
          THEN [@ EXCEPT !.pc = "done", !.ret = "true"]
          ELSE [@ EXCEPT !.pc = "store"]]
    /\ UNCHANGED <<now, sets, nodes, connected, workCh, workClosed,
                   onlineOfflineOrderCh, orderClosed, ctx, onlineOfflineSeq,
                   pendingChanges, sink, addNode, addWork, worker, ticker, orderer,
                   closer, panicked, enq, drainedAt>>

\* the value RemoveNode stores in b.connected for a node left without connections
disconnectStamp(t) == t

\* b.connected.Store(id, ptr.To(time.Now()))
RemoveNode_store(q) ==
    /\ Step
    /\ removeNode[q].pc = "store"
    /\ connected' = [connected EXCEPT ![removeNode[q].id] = disconnectStamp(now)]
    /\ removeNode' = [removeNode EXCEPT ![q] = [@ EXCEPT !.pc = "done", !.ret = "true"]]
    /\ UNCHANGED <<now, sets, nodes, workCh, workClosed, onlineOfflineOrderCh,
                   orderClosed, ctx, onlineOfflineSeq, pendingChanges, sink,
                   addNode, addWork, worker, ticker, orderer, closer, panicked,
                   enq, drainedAt>>

RemoveNode(q, ids, chans) ==
    \/ \E id \in ids, c \in chans : RemoveNode_Load(q, id, c)
    \/ RemoveNode_remove(q)
    \/ RemoveNode_check(q)
    \/ RemoveNode_store(q)

\* ----------------------------------------------------------------- worker
\* generateMapResponse(nc.nodeID(), nc.version(), b.mapper, w.c): a map built for
\* the version of the set's first connection, an error, or no map
generateMapResponse(s, c, out) == [status |-> out, chg |-> c.id, ver |-> version(s)]

\* connectionEntry.send for each connection of the set, under the set's mutex:
\* the channels in acc take the response within 50 ms and their lastUsed is
\* stamped; the others time out and are removed from the set.
send(conns, acc, t) ==
    LET Took(e) == e.c \in acc
        kept == SelectSeq(conns, Took)
    IN  [i \in 1..Len(kept) |-> [kept[i] EXCEPT !.lastUsed = t]]

\* mutant: an error as soon as one connection failed
sendErr_any(conns, acc) ==
    IF Chans(conns) \subseteq acc THEN "" ELSE "all connections failed"

\* what multiChannelNodeConn.send returns: nil for an empty set and when at
\* least one connection took the response
sendErr(conns, acc) ==
    IF Len(conns) = 0 \/ Chans(conns) \cap acc # {} THEN ""
    ELSE "all connections failed"

Delivered(snk, acc, msg) ==
    [ch \in DOMAIN snk |-> IF ch \in acc THEN Append(snk[ch], msg) ELSE snk[ch]]

\* case w, ok := <-b.workCh ; case <-b.ctx.Done(): return
Worker_take(w) ==
    /\ Step
    /\ worker[w].pc = "idle"
    /\ \/ /\ Len(workCh) > 0
          /\ worker' = [worker EXCEPT ![w] = [pc |-> "busy", item |-> Head(workCh), err |-> ""]]
          /\ workCh' = Tail(workCh)
       \/ /\ ctx = "done" \/ (workClosed /\ Len(workCh) = 0)
          /\ worker' = [worker EXCEPT ![w].pc = "stopped"]
          /\ UNCHANGED workCh
    /\ UNCHANGED <<now, sets, nodes, connected, workClosed, onlineOfflineOrderCh,
                   orderClosed, ctx, onlineOfflineSeq, pendingChanges, sink,
                   addNode, removeNode, addWork, ticker, orderer, closer, panicked,
                   enq, drainedAt>>

\* mutant: an unknown node yields no map and no error
notFound_nil(id) == [status |-> "nil", chg |-> 0, ver |-> 0]

\* result.err = fmt.Errorf("node %d not found", w.nodeID)
notFound(id) == [status |-> "notFound", chg |-> 0, ver |-> 0]

\* a work item with a result channel: generate and hand the result back
Worker_sync(w, outs) ==
    LET it == worker[w].item
        s == nodes[it.nodeID]
        p == it.resultCh
    IN  /\ Step
        /\ worker[w].pc = "busy"
        /\ p # 0
        /\ \E out \in outs :
            LET r == IF s = NoSet THEN notFound(it.nodeID)
                     ELSE generateMapResponse(s, it.c, out)
            IN  \/ /\ addNode' = [addNode EXCEPT ![p].res = r]
                   /\ worker' = [worker EXCEPT ![w] = [pc |-> "idle", item |-> NoWork, err |-> ""]]
                \/ /\ ctx = "done"
                   /\ worker' = [worker EXCEPT ![w] = [pc |-> "stopped", item |-> NoWork, err |-> ""]]
                   /\ UNCHANGED addNode
        /\ UNCHANGED <<now, sets, nodes, connected, workCh, workClosed,
                       onlineOfflineOrderCh, orderClosed, ctx, onlineOfflineSeq,
                       pendingChanges, sink, removeNode, addWork, ticker, orderer,
                       closer, panicked, enq, drainedAt>>

\* a work item without a result channel: nc.change(w.c), which generates the map
\* response and broadcasts it with nc.send
Worker_async(w, outs) ==
    LET it == worker[w].item
        s == nodes[it.nodeID]
        Done(err) == worker' = [worker EXCEPT ![w] = [pc |-> "idle", item |-> NoWork,
                                                     err |-> err]]
    IN  /\ Step
        /\ worker[w].pc = "busy"
        /\ it.resultCh = 0
        /\ IF s = NoSet
           THEN Done("") /\ UNCHANGED <<sets, sink>>
           ELSE \E out \in outs :
                  LET m == generateMapResponse(s, it.c, out)
                  IN  IF out # "ok"
                      THEN /\ Done(IF out = "err" THEN "generating map response" ELSE "")
                           /\ UNCHANGED <<sets, sink>>
                      ELSE \E acc \in SUBSET Chans(sets[s]) :
                             /\ sets' = [sets EXCEPT ![s] = send(@, acc, now)]
                             /\ sink' = Delivered(sink, acc, [chg |-> m.chg, ver |-> m.ver])
                             /\ Done(sendErr(sets[s], acc))
        /\ UNCHANGED <<now, nodes, connected, workCh, workClosed,
                       onlineOfflineOrderCh, orderClosed, ctx, onlineOfflineSeq,
                       pendingChanges, addNode, removeNode, addWork, ticker, orderer,
                       closer, panicked, enq, drainedAt>>

Worker(w, outs) == Worker_take(w) \/ Worker_sync(w, outs) \/ Worker_async(w, outs)

\* ---------------------------------------------------------------- AddWork
\* if c.NodeID == nodeID && !c.AlsoSelf() { return true }: the node is skipped
\* a Range that skips the change's own node whatever AlsoSelf says
skipTarget_always(c, nodeID) == c.nodeID = nodeID

\* if c.NodeID == nodeID && !c.AlsoSelf() { return true }
skipTarget(c, nodeID) == c.nodeID = nodeID /\ ~AlsoSelf(c)

\* the nodes a b.nodes.Range of addWork, addOnlineOfflineWork or addToBatch keeps
rangeTargets(c) == {n \in NodeIDs : nodes[n] # NoSet /\ ~skipTarget(c, n)}

\* addWork up to its first wait: the choice of the path and, except for a
\* self-update-only change, the Range over b.nodes; on the ordered lane also
\* seq := b.onlineOfflineSeq.Add(1)
AddWork_call(k, c) ==
    LET targets == IF c.selfOnly THEN {c.nodeID} ELSE rangeTargets(c)
        ordered == shouldProcessImmediately(c) /\ ~c.selfOnly /\ c.kind \in OrderedKinds
        path == IF targets = {} THEN "done"
                ELSE IF ~shouldProcessImmediately(c) THEN "batchLoad"
                ELSE IF ordered THEN "submit"
                ELSE "distribute"
    IN  /\ Step
        /\ addWork[k].pc = "idle"
        /\ c.id = k
        /\ onlineOfflineSeq' = IF ordered /\ targets # {} THEN onlineOfflineSeq + 1
                               ELSE onlineOfflineSeq
        /\ addWork' = [addWork EXCEPT ![k] =
              [@ EXCEPT !.pc = path, !.c = c, !.todo = targets,
                        !.known = {n \in NodeIDs : nodes[n] # NoSet},
                        !.seq = IF path = "submit" THEN onlineOfflineSeq' ELSE 0]]
        /\ UNCHANGED <<now, sets, nodes, connected, workCh, workClosed,
                       onlineOfflineOrderCh, orderClosed, ctx, pendingChanges, sink,
                       addNode, removeNode, worker, ticker, orderer, closer,
                       panicked, enq, drainedAt>>

\* the AddWork calls that have put an item for node t on the work channel
EnqueuedFor(t) == {k \in AddWorkCalls : t \in addWork[k].sent /\ addWork[k].seq = 0}

\* b.queueWork(work{c: c, nodeID: nodeID, resultCh: nil}) for the next target;
\* after records the targets for which another call's item was enqueued before
AddWork_distribute(k) ==
    /\ Step
    /\ addWork[k].pc = "distribute"
    /\ \E t \in addWork[k].todo :
        /\ queueWork([c |-> addWork[k].c, nodeID |-> t, resultCh |-> 0])
        /\ addWork' = [addWork EXCEPT ![k] =
              [@ EXCEPT !.todo = @ \ {t},
                        !.sent = IF workCh' # workCh THEN @ \cup {t} ELSE @,
                        !.after = IF workCh' # workCh /\ EnqueuedFor(t) # {}
                                  THEN @ \cup {t} ELSE @,
                        !.pc = IF addWork[k].todo = {t} THEN "done" ELSE "distribute"]]
    /\ UNCHANGED <<now, sets, nodes, connected, workClosed, onlineOfflineOrderCh,
                   orderClosed, ctx, onlineOfflineSeq, pendingChanges, sink,
                   addNode, removeNode, worker, ticker, orderer, closer, drainedAt>>

\* select { case b.onlineOfflineOrderCh <- orderedWork: ; case <-b.ctx.Done(): return }
AddWork_submit(k) ==
    /\ Step
    /\ addWork[k].pc = "submit"
    /\ \/ /\ ~orderClosed
          /\ Len(onlineOfflineOrderCh) < OrderChCap
          /\ onlineOfflineOrderCh' = Append(onlineOfflineOrderCh,
                [c |-> addWork[k].c, targetNodes |-> addWork[k].todo,
                 seq |-> addWork[k].seq])
          /\ addWork' = [addWork EXCEPT ![k] =
                [@ EXCEPT !.pc = "done", !.sent = addWork[k].todo, !.todo = {}]]
          /\ panicked' = panicked
       \/ /\ ctx = "done"
          /\ addWork' = [addWork EXCEPT ![k] = [@ EXCEPT !.pc = "done", !.todo = {}]]
          /\ UNCHANGED <<onlineOfflineOrderCh, panicked>>
       \/ /\ orderClosed
          /\ panicked' = "send on closed channel"
          /\ UNCHANGED <<onlineOfflineOrderCh, addWork>>
    /\ UNCHANGED <<now, sets, nodes, connected, workCh, workClosed, orderClosed, ctx,
                   onlineOfflineSeq, pendingChanges, sink, addNode, removeNode,
                   worker, ticker, orderer, closer, enq, drainedAt>>

\* changes, _ := b.pendingChanges.LoadOrStore(nodeID, []change.ChangeSet{})
AddWork_batchLoad(k) ==
    /\ Step
    /\ addWork[k].pc = "batchLoad"
    /\ \E t \in addWork[k].todo :
        LET cur == IF pendingChanges[t] = NoPending THEN <<>> ELSE pendingChanges[t]
        IN  /\ pendingChanges' = [pendingChanges EXCEPT ![t] = cur]
            /\ addWork' = [addWork EXCEPT ![k] =
                  [@ EXCEPT !.pc = "batchStore", !.target = t, !.loaded = cur,
                            !.todo = @ \ {t}]]
    /\ UNCHANGED <<now, sets, nodes, connected, workCh, workClosed,
                   onlineOfflineOrderCh, orderClosed, ctx, onlineOfflineSeq, sink,
                   addNode, removeNode, worker, ticker, orderer, closer, panicked,
                   enq, drainedAt>>

\* changes = append(changes, c); b.pendingChanges.Store(nodeID, changes)
AddWork_batchStore(k) ==
    /\ Step
    /\ addWork[k].pc = "batchStore"
    /\ pendingChanges' = [pendingChanges EXCEPT ![addWork[k].target] =
                            Append(addWork[k].loaded, addWork[k].c)]
    /\ addWork' = [addWork EXCEPT ![k] =
          [@ EXCEPT !.pc = IF addWork[k].todo = {} THEN "done" ELSE "batchLoad",
                    !.sent = @ \cup {addWork[k].target}, !.loaded = <<>>]]
    /\ UNCHANGED <<now, sets, nodes, connected, workCh, workClosed,
                   onlineOfflineOrderCh, orderClosed, ctx, onlineOfflineSeq, sink,
                   addNode, removeNode, worker, ticker, orderer, closer, panicked,
                   enq, drainedAt>>

AddWork_steps(k) ==
    \/ AddWork_distribute(k)
    \/ AddWork_submit(k)
    \/ AddWork_batchLoad(k)
    \/ AddWork_batchStore(k)

\* ------------------------------------------------- doOnlineOfflineOrdering
\* case orderedWork, ok := <-b.onlineOfflineOrderCh ; case <-b.ctx.Done(): return
Orderer_take ==
    /\ Step
    /\ orderer.pc = "idle"
    /\ \/ /\ Len(onlineOfflineOrderCh) > 0
          /\ orderer' = [pc |-> "fanout", c |-> Head(onlineOfflineOrderCh).c,
                         todo |-> Head(onlineOfflineOrderCh).targetNodes,
                         seq |-> Head(onlineOfflineOrderCh).seq]
          /\ onlineOfflineOrderCh' = Tail(onlineOfflineOrderCh)
       \/ /\ ctx = "done" \/ (orderClosed /\ Len(onlineOfflineOrderCh) = 0)
          /\ orderer' = [orderer EXCEPT !.pc = "stopped"]
          /\ UNCHANGED onlineOfflineOrderCh
    /\ UNCHANGED <<now, sets, nodes, connected, workCh, workClosed, orderClosed, ctx,
                   onlineOfflineSeq, pendingChanges, sink, addNode, removeNode,
                   addWork, worker, ticker, closer, panicked, enq, drainedAt>>

\* for _, targetNodeID := range orderedWork.targetNodes {
\*     select { case <-b.ctx.Done(): return ; default: }
Orderer_fanout ==
    /\ Step
    /\ orderer.pc = "fanout"
    /\ orderer' = [orderer EXCEPT !.pc =
          IF orderer.todo = {} THEN "idle"
          ELSE IF ctx = "done" THEN "stopped"
          ELSE "queue"]
    /\ UNCHANGED <<now, sets, nodes, connected, workCh, workClosed,
                   onlineOfflineOrderCh, orderClosed, ctx, onlineOfflineSeq,
                   pendingChanges, sink, addNode, removeNode, addWork, worker,
                   ticker, closer, panicked, enq, drainedAt>>

\*     b.queueWork(work{c: orderedWork.c, nodeID: targetNodeID, resultCh: nil}) }
Orderer_queue ==
    /\ Step
    /\ orderer.pc = "queue"
    /\ \E t \in orderer.todo :
        /\ queueWork([c |-> orderer.c, nodeID |-> t, resultCh |-> 0])
        /\ orderer' = [orderer EXCEPT !.pc = "fanout", !.todo = @ \ {t}]
    /\ UNCHANGED <<now, sets, nodes, connected, workClosed, onlineOfflineOrderCh,
                   orderClosed, ctx, onlineOfflineSeq, pendingChanges, sink,
                   addNode, removeNode, addWork, worker, ticker, closer, drainedAt>>

Orderer == Orderer_take \/ Orderer_fanout \/ Orderer_queue

\* ----------------------------------------------------------------- doWork
\* case <-b.tick.C: b.processBatchedChanges(): the Range over b.pendingChanges
Tick_batch ==
    /\ Step
    /\ ticker.pc = "idle"
    /\ \E n \in NodeIDs : pendingChanges[n] # NoPending
    /\ ticker' = [ticker EXCEPT !.pc = "batch",
                     !.todo = {n \in NodeIDs : pendingChanges[n] # NoPending}]
    /\ UNCHANGED <<now, sets, nodes, connected, workCh, workClosed,
                   onlineOfflineOrderCh, orderClosed, ctx, onlineOfflineSeq,
                   pendingChanges, sink, addNode, removeNode, addWork, worker,
                   orderer, closer, panicked, enq, drainedAt>>

\* the Range callback is handed the changes of the next node
Tick_batch_visit ==
    /\ Step
    /\ ticker.pc = "batch"
    /\ IF ticker.todo = {}
       THEN ticker' = [ticker EXCEPT !.pc = "idle"]
       ELSE \E n \in ticker.todo :
              ticker' = IF Len(pendingChanges[n]) = 0
                        THEN [ticker EXCEPT !.todo = @ \ {n}]
                        ELSE [ticker EXCEPT !.pc = "flush", !.node = n,
                                            !.batch = pendingChanges[n],
                                            !.todo = @ \ {n}]
    /\ UNCHANGED <<now, sets, nodes, connected, workCh, workClosed,
                   onlineOfflineOrderCh, orderClosed, ctx, onlineOfflineSeq,
                   pendingChanges, sink, addNode, removeNode, addWork, worker,
                   orderer, closer, panicked, enq, drainedAt>>

\* for _, c := range changes { b.queueWork(work{c: c, nodeID: nodeID, resultCh: nil}) }
Tick_batch_flush ==
    /\ Step
    /\ ticker.pc = "flush"
    /\ ticker.batch # <<>>
    /\ queueWork([c |-> Head(ticker.batch), nodeID |-> ticker.node, resultCh |-> 0])
    /\ ticker' = [ticker EXCEPT !.batch = Tail(@)]
    /\ UNCHANGED <<now, sets, nodes, connected, workClosed, onlineOfflineOrderCh,
                   orderClosed, ctx, onlineOfflineSeq, pendingChanges, sink,
                   addNode, removeNode, addWork, worker, orderer, closer, drainedAt>>

\* b.pendingChanges.Delete(nodeID)
Tick_batch_delete ==
    /\ Step
    /\ ticker.pc = "flush"
    /\ ticker.batch = <<>>
    /\ pendingChanges' = [pendingChanges EXCEPT ![ticker.node] = NoPending]
    /\ ticker' = [ticker EXCEPT !.pc = "batch", !.node = 0]
    /\ UNCHANGED <<now, sets, nodes, connected, workCh, workClosed,
                   onlineOfflineOrderCh, orderClosed, ctx, onlineOfflineSeq, sink,
                   addNode, removeNode, addWork, worker, orderer, closer, panicked,
                   enq, drainedAt>>

\* mutant: a connection is stale from 30 seconds on
healthyConnections_early(conns, t) ==
    LET Healthy(e) == t - e.lastUsed < StaleThreshold
    IN  SelectSeq(conns, Healthy)

\* the connections cleanupStaleConnections keeps: age := now - lastUsed,
\* stale if age > staleThreshold
healthyConnections(conns, t) ==
    LET Healthy(e) == ~(t - e.lastUsed > StaleThreshold)
    IN  SelectSeq(conns, Healthy)

\* case <-staleConnectionTicker.C: b.cleanupStaleConnections(): the Range over b.nodes
Tick_stale ==
    /\ Step
    /\ ticker.pc = "idle"
    /\ \E n \in NodeIDs : nodes[n] # NoSet
    /\ ticker' = [ticker EXCEPT !.pc = "stale",
                     !.todo = {n \in NodeIDs : nodes[n] # NoSet}]
    /\ UNCHANGED <<now, sets, nodes, connected, workCh, workClosed,
                   onlineOfflineOrderCh, orderClosed, ctx, onlineOfflineSeq,
                   pendingChanges, sink, addNode, removeNode, addWork, worker,
                   orderer, closer, panicked, enq, drainedAt>>

\* one node's critical section: nodeConn.connections = healthyConnections
Tick_stale_filter ==
    /\ Step
    /\ ticker.pc = "stale"
    /\ IF ticker.todo = {}
       THEN /\ ticker' = [ticker EXCEPT !.pc = "idle"]
            /\ UNCHANGED sets
       ELSE \E n \in ticker.todo :
              LET s == nodes[n]
                  healthy == healthyConnections(sets[s], now)
              IN  /\ sets' = [sets EXCEPT ![s] = healthy]
                  /\ ticker' = IF Len(healthy) = 0 /\ Len(sets[s]) > 0
                               THEN [ticker EXCEPT !.pc = "staleStamp", !.node = n,
                                                   !.todo = @ \ {n}]
                               ELSE [ticker EXCEPT !.todo = @ \ {n}]
    /\ UNCHANGED <<now, nodes, connected, workCh, workClosed, onlineOfflineOrderCh,
                   orderClosed, ctx, onlineOfflineSeq, pendingChanges, sink,
                   addNode, removeNode, addWork, worker, orderer, closer, panicked,
                   enq, drainedAt>>

\* b.connected.Store(nodeID, ptr.To(time.Now()))
Tick_stale_stamp ==
    /\ Step
    /\ ticker.pc = "staleStamp"
    /\ connected' = [connected EXCEPT ![ticker.node] = now]
    /\ ticker' = [ticker EXCEPT !.pc = "stale", !.node = 0]
    /\ UNCHANGED <<now, sets, nodes, workCh, workClosed, onlineOfflineOrderCh,
                   orderClosed, ctx, onlineOfflineSeq, pendingChanges, sink,
                   addNode, removeNode, addWork, worker, orderer, closer, panicked,
                   enq, drainedAt>>

\* cleanupOfflineNodes: the nodes its Range over b.connected appends to nodesToCleanup
nodesToCleanup ==
    {n \in NodeIDs :
        /\ connected[n] >= 0
        /\ now - connected[n] > CleanupThreshold
        /\ nodes[n] # NoSet
        /\ ~hasActiveConnections(nodes[n])}

\* case <-cleanupTicker.C: b.cleanupOfflineNodes(): the Range
Tick_cleanup ==
    /\ Step
    /\ ticker.pc = "idle"
    /\ nodesToCleanup # {}
    /\ ticker' = [ticker EXCEPT !.pc = "cleanup", !.todo = nodesToCleanup]
    /\ UNCHANGED <<now, sets, nodes, connected, workCh, workClosed,
                   onlineOfflineOrderCh, orderClosed, ctx, onlineOfflineSeq,
                   pendingChanges, sink, addNode, removeNode, addWork, worker,
                   orderer, closer, panicked, enq, drainedAt>>

\* b.nodes.Delete(nodeID); b.connected.Delete(nodeID)
Tick_cleanup_delete ==
    /\ Step
    /\ ticker.pc = "cleanup"
    /\ \E n \in ticker.todo :
        /\ nodes' = [nodes EXCEPT ![n] = NoSet]
        /\ connected' = [connected EXCEPT ![n] = Absent]
        /\ ticker' = [ticker EXCEPT !.todo = @ \ {n},
                         !.pc = IF ticker.todo = {n} THEN "idle" ELSE "cleanup"]
    /\ UNCHANGED <<now, sets, workCh, workClosed, onlineOfflineOrderCh,
                   orderClosed, ctx, onlineOfflineSeq, pendingChanges, sink,
                   addNode, removeNode, addWork, worker, orderer, closer, panicked,
                   enq, drainedAt>>

\* ------------------------------------------------------------------ Close
\* b.cancel()
Close_cancel(z) ==
    /\ Step
    /\ closer[z] = "idle"
    /\ ctx' = "done"
    /\ closer' = [closer EXCEPT ![z] = "selectWork"]
    /\ UNCHANGED <<now, sets, nodes, connected, workCh, workClosed,
                   onlineOfflineOrderCh, orderClosed, onlineOfflineSeq,
                   pendingChanges, sink, addNode, removeNode, addWork, worker,
                   ticker, orderer, panicked, enq, drainedAt>>

\* select { case <-b.workCh: ; default: close(b.workCh) }: the choice of the case.
\* The receive is ready when the channel holds an item or is closed.
Close_selectWork(z) ==
    /\ Step
    /\ closer[z] = "selectWork"
    /\ workCh' = IF Len(workCh) > 0 THEN Tail(workCh) ELSE workCh
    /\ closer' = [closer EXCEPT ![z] =
          IF Len(workCh) > 0 \/ workClosed THEN "selectOrder" ELSE "closeWork"]
    /\ UNCHANGED <<now, sets, nodes, connected, workClosed, onlineOfflineOrderCh,
                   orderClosed, ctx, onlineOfflineSeq, pendingChanges, sink,
                   addNode, removeNode, addWork, worker, ticker, orderer, panicked,
                   enq, drainedAt>>

\* close(b.workCh)
Close_closeWork(z) ==
    /\ Step
    /\ closer[z] = "closeWork"
    /\ IF workClosed
       THEN panicked' = "close of closed channel" /\ UNCHANGED workClosed
       ELSE workClosed' = TRUE /\ UNCHANGED panicked
    /\ closer' = [closer EXCEPT ![z] = "selectOrder"]
    /\ UNCHANGED <<now, sets, nodes, connected, workCh, onlineOfflineOrderCh,
                   orderClosed, ctx, onlineOfflineSeq, pendingChanges, sink,
                   addNode, removeNode, addWork, worker, ticker, orderer, enq,
                   drainedAt>>

\* select { case <-b.onlineOfflineOrderCh: ; default: close(b.onlineOfflineOrderCh) }
Close_selectOrder(z) ==
    /\ Step
    /\ closer[z] = "selectOrder"
    /\ onlineOfflineOrderCh' = IF Len(onlineOfflineOrderCh) > 0
                               THEN Tail(onlineOfflineOrderCh)
                               ELSE onlineOfflineOrderCh
    /\ closer' = [closer EXCEPT ![z] =
          IF Len(onlineOfflineOrderCh) > 0 \/ orderClosed THEN "done" ELSE "closeOrder"]
    /\ UNCHANGED <<now, sets, nodes, connected, workCh, workClosed, orderClosed, ctx,
                   onlineOfflineSeq, pendingChanges, sink, addNode, removeNode,
                   addWork, worker, ticker, orderer, panicked, enq, drainedAt>>

\* close(b.onlineOfflineOrderCh)
Close_closeOrder(z) ==
    /\ Step
    /\ closer[z] = "closeOrder"
    /\ IF orderClosed
       THEN panicked' = "close of closed channel" /\ UNCHANGED orderClosed
       ELSE orderClosed' = TRUE /\ UNCHANGED panicked
    /\ closer' = [closer EXCEPT ![z] = "done"]
    /\ UNCHANGED <<now, sets, nodes, connected, workCh, workClosed,
                   onlineOfflineOrderCh, ctx, onlineOfflineSeq, pendingChanges,
                   sink, addNode, removeNode, addWork, worker, ticker, orderer, enq,
                   drainedAt>>

Close(z) ==
    \/ Close_cancel(z)
    \/ Close_selectWork(z)
    \/ Close_closeWork(z)
    \/ Close_selectOrder(z)
    \/ Close_closeOrder(z)

\* case <-b.ctx.Done(): return, in the select of doWork
Tick_stop ==
    /\ Step
    /\ ticker.pc = "idle"
    /\ ctx = "done"
    /\ ticker' = [ticker EXCEPT !.pc = "stopped"]
    /\ UNCHANGED <<now, sets, nodes, connected, workCh, workClosed,
                   onlineOfflineOrderCh, orderClosed, ctx, onlineOfflineSeq,
                   pendingChanges, sink, addNode, removeNode, addWork, worker,
                   orderer, closer, panicked, enq, drainedAt>>

\* ------------------------------------------------------------------ clock
\* every call into the batcher has returned and every goroutine of the batcher
\* waits in its select
AtRest ==
    /\ \A p \in AddNodeCalls : addNode[p].pc \in {"idle", "done"}
    /\ \A q \in RemoveNodeCalls : removeNode[q].pc \in {"idle", "done"}
    /\ \A k \in AddWorkCalls : addWork[k].pc \in {"idle", "done"}
    /\ \A w \in Workers : worker[w].pc \in {"idle", "stopped"}
    /\ ticker.pc = "idle"
    /\ orderer.pc \in {"idle", "stopped"}
    /\ \A z \in Closers : closer[z] \in {"idle", "done"}

Advance(d, max) ==
    /\ Step
    /\ AtRest
    /\ now + d <= max
    /\ now' = now + d
    /\ UNCHANGED <<sets, nodes, connected, workCh, workClosed, onlineOfflineOrderCh,
                   orderClosed, ctx, onlineOfflineSeq, pendingChanges, sink,
                   addNode, removeNode, addWork, worker, ticker, orderer, closer,
                   panicked, enq, drainedAt>>

\* --------------------------------------------------------- specifications
Change(k, kind, n, selfOnly, alsoSelf) ==
    [id |-> k, kind |-> kind, nodeID |-> n, selfOnly |-> selfOnly, alsoSelf |-> alsoSelf]

\* The sessions of the nodes in R are open: AddNode call n has registered channel
\* n for node n and has returned nil.
Registered(R) ==
    LET idx(n) == Cardinality({m \in R : m <= n})
        nodeAt(i) == CHOOSE n \in R : idx(n) = i
    IN  /\ now = 0
        /\ sets = [i \in 1..Cardinality(R) |-> <<newEntry(nodeAt(i), 0)>>]
        /\ nodes = [n \in NodeIDs |-> IF n \in R THEN idx(n) ELSE NoSet]
        /\ connected = [n \in NodeIDs |-> IF n \in R THEN NilTime ELSE Absent]
        /\ workCh = <<>>
        /\ workClosed = FALSE
        /\ onlineOfflineOrderCh = <<>>
        /\ orderClosed = FALSE
        /\ ctx = "live"
        /\ onlineOfflineSeq = 0
        /\ pendingChanges = [n \in NodeIDs |-> NoPending]
        /\ sink = [p \in AddNodeCalls |->
                     IF p \in R THEN <<[chg |-> -p, ver |-> CapVerOf(p)]>> ELSE <<>>]
        /\ addNode = [p \in AddNodeCalls |->
                        IF p \in R
                        THEN [pc |-> "done", id |-> p, set |-> idx(p), created |-> 0,
                              res |-> [status |-> "ok", chg |-> -p, ver |-> CapVerOf(p)],
                              ret |-> "ok"]
                        ELSE [pc |-> "idle", id |-> 0, set |-> NoSet, created |-> 0,
                              res |-> NoResult, ret |-> "none"]]
        /\ removeNode = [q \in RemoveNodeCalls |->
                        [pc |-> "idle", id |-> 0, c |-> 0, set |-> NoSet, ret |-> "none"]]
        /\ addWork = [k \in AddWorkCalls |->
                        [pc |-> "idle", c |-> NoChange, known |-> {}, todo |-> {},
                         sent |-> {}, target |-> 0, loaded |-> <<>>, seq |-> 0,
                     after |-> {}]]
        /\ worker = [w \in Workers |-> [pc |-> "idle", item |-> NoWork, err |-> ""]]
        /\ ticker = [pc |-> "idle", todo |-> {}, node |-> 0, batch |-> <<>>]
        /\ orderer = [pc |-> "idle", c |-> NoChange, todo |-> {}, seq |-> 0]
        /\ closer = [z \in Closers |-> "idle"]
        /\ panicked = ""
        /\ enq = [x \in (AddWorkCalls \X NodeIDs) |-> 0]
        /\ drainedAt = [n \in NodeIDs |-> Never]
        /\ OthersIdle

\* Sessions: AddNode, RemoveNode, the worker that generates the initial maps,
\* the stale-connection reaper and the clock.
Next ==
    \/ \E p \in {1, 2} : AddNode(p, NodeIDs)
    \/ \E q \in {1} : RemoveNode(q, NodeIDs, {1, 2})
    \/ Worker_take(1)
    \/ Worker_sync(1, {"ok"})
    \/ Tick_stale
    \/ Tick_stale_filter
    \/ Tick_stale_stamp
    \/ Advance(TimeStep, MaxTime)

Spec == Init /\ [][Next]_vars

\* ----------------------------------------------------------------- claims
AllSets == 1..Len(sets)

HasLiveChannel(id) == nodes[id] # NoSet /\ Len(sets[nodes[id]]) > 0

\* no AddNode or RemoveNode call for the node is under way
NoCallUnderWay(id) ==
    /\ \A p \in AddNodeCalls : addNode[p].pc \in {"idle", "done"} \/ addNode[p].id # id
    /\ \A q \in RemoveNodeCalls :
          removeNode[q].pc \in {"idle", "done"} \/ removeNode[q].id # id

\* C4: an AddNode call whose initial send ran into the deadline has returned an
\* error, its channel is in no connection set, and the node is not marked
\* connected (nil in b.connected) unless another AddNode call for the node
\* succeeded.
C4_TimeoutRemovesChannel ==
    \A p \in AddNodeCalls :
        addNode[p].ret = "errTimeout" =>
            /\ addNode[p].pc = "done"
            /\ \A s \in AllSets : p \notin Chans(sets[s])
            /\ (\A p2 \in AddNodeCalls \ {p} :
                    ~(addNode[p2].id = addNode[p].id /\ addNode[p2].ret = "ok"))
                => connected[addNode[p].id] # NilTime

C4_Witness ==
    \E p \in AddNodeCalls :
        /\ addNode[p].ret = "errTimeout"
        /\ nodes[addNode[p].id] # NoSet
        /\ Len(sets[nodes[addNode[p].id]]) > 0

\* C5: RemoveNode(id, sink) takes exactly the connection whose channel is sink
\* out of the node's set and returns true; if it then finds the set empty it
\* stores the disconnect time and leaves b.nodes alone; for an unknown node or a
\* sink that is not in the set it returns false and changes nothing.
C5_RemoveNodeEffect ==
    [][\A q \in RemoveNodeCalls :
        LET r == removeNode[q]
            r2 == removeNode'[q]
            Other(e) == e.c # r.c
            frame == sets' = sets /\ nodes' = nodes /\ connected' = connected
        IN  /\ (r.pc = "idle" /\ r2.pc = "done") => (r2.ret = "false" /\ frame)
            /\ (r.pc = "idle" /\ r2.pc # "idle" /\ nodes[r2.id] = NoSet) => r2.pc = "done"
            /\ (r.pc = "remove" /\ r2.pc # "remove") =>
                  /\ nodes' = nodes /\ connected' = connected
                  /\ \A s \in AllSets : s # r.set => sets'[s] = sets[s]
                  /\ IF r.c \in Chans(sets[r.set])
                     THEN /\ sets'[r.set] = SelectSeq(sets[r.set], Other)
                          /\ Len(sets'[r.set]) = Len(sets[r.set]) - 1
                          /\ r2.pc = "check"
                     ELSE /\ sets'[r.set] = sets[r.set]
                          /\ r2.pc = "done" /\ r2.ret = "false"
            /\ (r.pc = "check" /\ r2.pc # "check") =>
                  /\ frame
                  /\ IF Len(sets[r.set]) = 0 THEN r2.pc = "store"
                     ELSE r2.pc = "done" /\ r2.ret = "true"
            /\ (r.pc = "store" /\ r2.pc # "store") =>
                  /\ r2.pc = "done" /\ r2.ret = "true"
                  /\ connected' = [connected EXCEPT ![r.id] = now]
                  /\ sets' = sets /\ nodes' = nodes
    ]_vars

C5_Witness ==
    \E q \in RemoveNodeCalls :
        /\ removeNode[q].pc = "done" /\ removeNode[q].ret = "true"
        /\ nodes[removeNode[q].id] # NoSet
        /\ Len(sets[nodes[removeNode[q].id]]) = 0
        /\ connected[removeNode[q].id] >= 0

\* C6: once RemoveNode has taken the last channel out of a node's set and no
\* AddNode for the node follows, IsConnected(id) is true while less than 45
\* seconds have passed since the removal and false from then on.
C6_GraceAfterRemove ==
    \A id \in NodeIDs :
        (drainedAt[id] # Never /\ NoCallUnderWay(id)) =>
            (IsConnected(id) <=> now - drainedAt[id] < GracePeriod)

C6_Witness ==
    \E id \in NodeIDs :
        /\ drainedAt[id] # Never /\ NoCallUnderWay(id)
        /\ now - drainedAt[id] >= GracePeriod
        /\ ~IsConnected(id)

\* C9: a stale-reaper tick visits every set of b.nodes; in each it removes every
\* connection whose lastUsed is more than 30 seconds in the past and keeps every
\* other one, and where that empties a set that had connections it stores the
\* disconnect time.
C9_ReaperEffect ==
    [][/\ (ticker.pc = "idle" /\ ticker'.pc = "stale") =>
              ticker'.todo = {n \in NodeIDs : nodes[n] # NoSet}
       /\ (ticker.pc = "stale" /\ ticker'.todo # ticker.todo) =>
              \E n \in ticker.todo :
                  LET before == sets[nodes[n]]
                      after == sets'[nodes[n]]
                      Old(e) == now - e.lastUsed > StaleThreshold
                      Young(e) == now - e.lastUsed <= StaleThreshold
                  IN  /\ ticker'.todo = ticker.todo \ {n}
                      /\ after = SelectSeq(before, Young)
                      /\ \A i \in 1..Len(before) : Old(before[i]) =>
                             before[i].c \notin Chans(after)
                      /\ (Len(after) = 0 /\ Len(before) > 0) =>
                             (ticker'.pc = "staleStamp" /\ ticker'.node = n)
                      /\ ticker'.pc = "staleStamp" => (Len(after) = 0 /\ Len(before) > 0)
       /\ (ticker.pc = "staleStamp" /\ ticker'.pc # "staleStamp") =>
              connected' = [connected EXCEPT ![ticker.node] = now]
    ]_vars

\* the reaper has removed the older of a node's two connections and kept the
\* younger one
C9_Witness ==
    \E p1, p2 \in AddNodeCalls :
        /\ addNode[p1].ret = "ok" /\ addNode[p2].ret = "ok"
        /\ addNode[p1].id = addNode[p2].id
        /\ \A q \in RemoveNodeCalls : removeNode[q].pc = "idle"
        /\ p1 \notin Chans(sets[nodes[addNode[p1].id]])
        /\ p2 \in Chans(sets[nodes[addNode[p1].id]])

\* the channels of the AddNode calls that have returned: a session calls
\* RemoveNode for its channel after its AddNode call
Returned == {p \in AddNodeCalls : addNode[p].pc = "done"}

\* Broadcasts: the sessions of one node, a change that is broadcast to it, the
\* reaper and a clock that steps over the grace period.
NextBroadcast ==
    \/ \E p \in {1, 2} : AddNode(p, {1})
    \/ \E q \in {1} : RemoveNode(q, {1}, Returned)
    \/ \E w \in {1} : Worker(w, {"ok"})
    \/ AddWork_call(1, Change(1, "Policy", 1, FALSE, TRUE))
    \/ AddWork_distribute(1)
    \/ Tick_stale
    \/ Tick_stale_filter
    \/ Tick_stale_stamp
    \/ Advance(3 * TimeStep, MaxTime)

SpecBroadcast == Init /\ [][NextBroadcast]_vars

\* The long-offline sweep beside the sessions of one node.
NextSweep ==
    \/ \E p \in {1, 2} : AddNode(p, {1})
    \/ \E q \in {1} : RemoveNode(q, {1}, Returned)
    \/ Worker_take(1)
    \/ Worker_sync(1, {"ok", "err", "nil"})
    \/ Tick_cleanup
    \/ Tick_cleanup_delete
    \/ Advance(LongStep, LongMaxTime)

SpecSweep == Init /\ [][NextSweep]_vars

\* the changes AddWork call k may submit
WorkChanges(k) ==
    {Change(k, kind, n, flags[1], flags[2]) :
        kind \in {"Full", "NodeCameOnline", "NodeWentOffline", "PeerChanged"},
        n \in NodeIDs,
        flags \in {<<FALSE, FALSE>>, <<FALSE, TRUE>>, <<TRUE, TRUE>>}}

\* Targets: one AddWork call on each of its paths, with one or both nodes in the
\* node map, the ordered lane's consumer, a worker and the batch tick.
NextWork ==
    \/ \E c \in WorkChanges(1) : AddWork_call(1, c)
    \/ AddWork_steps(1)
    \/ Orderer
    \/ Worker_take(1)
    \/ Worker_async(1, {"ok"})
    \/ Tick_batch
    \/ Tick_batch_visit
    \/ Tick_batch_flush
    \/ Tick_batch_delete

SpecWork == (Registered({1}) \/ Registered(NodeIDs)) /\ [][NextWork]_vars

\* The ordered lane: two concurrent AddWork calls with online/offline changes of
\* node 1 for both nodes, the lane's consumer and two workers.
NextOrdered ==
    \/ \E k \in AddWorkCalls : \E kind \in OrderedKinds :
          AddWork_call(k, Change(k, kind, 1, FALSE, TRUE))
    \/ \E k \in AddWorkCalls : AddWork_submit(k)
    \/ Orderer
    \/ \E w \in Workers : Worker_take(w) \/ Worker_async(w, {"ok"})

SpecOrdered == Registered(NodeIDs) /\ [][NextOrdered]_vars

\* Batching: two concurrent AddWork calls with batched changes, the batch tick
\* and a worker.
NextBatch ==
    \/ \E k \in AddWorkCalls : \E n \in NodeIDs :
          \E flags \in {<<FALSE, TRUE>>, <<TRUE, TRUE>>} :
             AddWork_call(k, Change(k, "PeerChanged", n, flags[1], flags[2]))
    \/ \E k \in AddWorkCalls : AddWork_batchLoad(k) \/ AddWork_batchStore(k)
    \/ Worker_take(1)
    \/ Worker_async(1, {"ok"})
    \/ Tick_batch
    \/ Tick_batch_visit
    \/ Tick_batch_flush
    \/ Tick_batch_delete

SpecBatch == Registered(NodeIDs) /\ [][NextBatch]_vars

\* Shutdown: two Close calls, one after the other, beside an AddWork call, an
\* AddNode call (which calls MapResponseFromChange), the ordered lane's consumer
\* and a worker.
NextClose ==
    \/ Close(1)
    \/ closer[1] = "done" /\ Close(2)
    \/ \E c \in {Change(1, "Full", 1, FALSE, TRUE),
                 Change(1, "NodeCameOnline", 1, FALSE, FALSE)} : AddWork_call(1, c)
    \/ AddWork_distribute(1)
    \/ AddWork_submit(1)
    \/ Orderer
    \/ AddNode(3, {1})
    \/ \E w \in {1} : Worker(w, {"ok", "err", "nil"})

SpecClose == Registered(NodeIDs) /\ [][NextClose]_vars

\* ------------------------------------------------------------------ claims
\* the changes that went through the ordered lane
IsOrdered(k) == addWork[k].seq > 0

\* C1: of two online/offline changes submitted through AddWork, every channel
\* that is delivered map responses for both is delivered the one with the lower
\* ordered-lane sequence number first.
C1_OrderedLaneFIFO ==
    \A ch \in DOMAIN sink :
        \A i, j \in 1..Len(sink[ch]) :
            LET e1 == sink[ch][i].chg
                e2 == sink[ch][j].chg
            IN  (/\ i < j
                 /\ e1 \in AddWorkCalls /\ e2 \in AddWorkCalls
                 /\ IsOrdered(e1) /\ IsOrdered(e2))
                => addWork[e1].seq < addWork[e2].seq

\* every AddWork call has returned and the batch tick has flushed all it found
BatchQuiescent ==
    /\ \A k \in AddWorkCalls : addWork[k].pc = "done"
    /\ \A n \in NodeIDs : pendingChanges[n] = NoPending
    /\ ticker.pc = "idle"

\* C2: a batched change is put on the work channel at most once per target
\* node, and exactly once when the AddWork calls have returned and the tick has
\* flushed the pending changes.
C2_BatchedExactlyOnce ==
    \A k \in AddWorkCalls : \A t \in NodeIDs :
        /\ enq[<<k, t>>] <= 1
        /\ (BatchQuiescent /\ t \in addWork[k].sent) => enq[<<k, t>>] = 1

\* C3: between calls, IsConnected(id) is true exactly if the node's set holds a
\* channel or the node's disconnect time is less than 45 seconds old.
C3_IsConnectedIff ==
    AtRest =>
        \A id \in NodeIDs :
            IsConnected(id) <=>
                \/ HasLiveChannel(id)
                \/ (connected[id] >= 0 /\ now - connected[id] < GracePeriod)

\* the targets the contract gives a change, over the node map the call saw
ExpectedTargets(k) ==
    LET c == addWork[k].c
    IN  IF c.selfOnly THEN {c.nodeID}
        ELSE {n \in addWork[k].known : n # c.nodeID \/ c.alsoSelf}

\* C7: an AddWork call targets a self-update-only change at change.nodeID only,
\* and any other change at every node of the node map except change.nodeID,
\* which is a target only when alsoSelf is true: on the immediate path (work
\* items), the ordered lane (targetNodes) and the batched path (pending lists).
C7_Targets ==
    \A k \in AddWorkCalls :
        addWork[k].pc # "idle" =>
            LET c == addWork[k].c
                E == ExpectedTargets(k)
                inHand == IF addWork[k].pc = "batchStore" THEN {addWork[k].target}
                          ELSE {}
            IN  /\ addWork[k].sent \cup addWork[k].todo \cup inHand = E
                /\ addWork[k].pc = "done" => addWork[k].sent = E
                /\ \A i \in 1..Len(workCh) :
                      workCh[i].c = c => workCh[i].nodeID \in E
                /\ \A w \in Workers : worker[w].item.c = c => worker[w].item.nodeID \in E
                /\ \A i \in 1..Len(onlineOfflineOrderCh) :
                      onlineOfflineOrderCh[i].c = c =>
                          onlineOfflineOrderCh[i].targetNodes = E
                /\ orderer.c = c => orderer.todo \subseteq E
                /\ \A n \in NodeIDs :
                      (\E i \in 1..Len(pendingChanges[n]) : pendingChanges[n][i] = c)
                          => n \in E
                /\ \A n \in NodeIDs : enq[<<k, n>>] > 0 => n \in E

\* a change of node 1 that is not for node 1 itself has been batched for node 2
\* alone and flushed to the work channel
C7_Witness ==
    /\ addWork[1].pc = "done"
    /\ addWork[1].c.kind = "PeerChanged"
    /\ addWork[1].c.nodeID = 1 /\ ~addWork[1].c.selfOnly /\ ~addWork[1].c.alsoSelf
    /\ addWork[1].known = NodeIDs
    /\ addWork[1].sent = {2}
    /\ enq[<<1, 2>>] = 1 /\ enq[<<1, 1>>] = 0

\* C8: no goroutine sends on the work channel or on the ordered lane's channel
\* after it was closed, and no channel is closed twice: nothing panics.
C8_NoPanic == panicked = ""

\* C10: the long-offline sweep deletes a node's connection set only when, at the
\* deletion, the set holds no channel and the node's disconnect time is more
\* than 15 minutes old.
C10_SweepDeletesOnlyOffline ==
    [][\A n \in NodeIDs :
          (nodes[n] # NoSet /\ nodes'[n] = NoSet) =>
              /\ ~hasActiveConnections(nodes[n])
              /\ connected[n] >= 0
              /\ now - connected[n] > CleanupThreshold
    ]_vars

\* C11: MapResponseFromChange hands its caller what the worker generated for the
\* node's set (the map, or the generation error) or, when the node has no set
\* in b.nodes, a "node not found" error; neither the worker's step nor the
\* return sends anything to a channel or changes a connection set.
C11_SyncResult ==
    [][\A p \in AddNodeCalls :
        LET a == addNode[p]
            a2 == addNode'[p]
        IN  /\ (a.res = NoResult /\ a2.res # NoResult) =>
                  /\ sink' = sink /\ sets' = sets /\ nodes' = nodes
                  /\ connected' = connected
                  /\ IF nodes[a.id] = NoSet
                     THEN a2.res.status = "notFound"
                     ELSE /\ a2.res.status \in {"ok", "err", "nil"}
                          /\ a2.res.chg = FullSelf(p, a.id).id
                          /\ a2.res.ver = version(nodes[a.id])
            /\ (a.pc = "awaitResult" /\ a2.pc # "awaitResult" /\ ctx = "live") =>
                  /\ sink' = sink
                  /\ a.res # NoResult
                  /\ a.res.status = "ok" <=> a2.pc = "sendInitial"
                  /\ a.res.status = "nil" <=> a2.pc = "storeConnected"
                  /\ a.res.status \in {"err", "notFound"} <=> a2.ret = "errGenerate"
    ]_vars

\* a caller has been handed "node not found": the sweep deleted the node's set
\* before the worker took the item
C11_Witness ==
    \E p \in AddNodeCalls :
        /\ addNode[p].res.status = "notFound"
        /\ addNode[p].ret = "errGenerate"

\* ================================================================= routes
\* The route manager (package db): the routes table and the operations on it.
\* Every operation runs inside one serialized transaction, so each is one step.
\* store.rows is the table in id order; a row is
\* [id, node, prefix, advertised, enabled, primary].
RouteNodes == {1, 2}
SubnetPrefixes == {"10.0.0.0/24", "10.0.1.0/24"}
ExitRouteV4 == "0.0.0.0/0"
ExitRouteV6 == "::/0"
ExitPrefixes == {ExitRouteV4, ExitRouteV6}
MaxRouteID == 4          \* ids the table ever hands out

\* types.NodeConnectedMap: the set of nodes mapped to true
ConnectedMaps == SUBSET RouteNodes

NoRoute == [id |-> 0, node |-> 0, prefix |-> "", advertised |-> FALSE,
            enabled |-> FALSE, primary |-> FALSE]

IsExitRoute(r) == r.prefix \in ExitPrefixes

RowIDs(rows) == {rows[i].id : i \in 1..Len(rows)}

RowOf(rows, id) == rows[CHOOSE i \in 1..Len(rows) : rows[i].id = id]

\* tx.Unscoped().Delete(&route)
DeleteRow(rows, id) == LET Keep(r) == r.id # id IN SelectSeq(rows, Keep)

\* tx.Save(&route): UPDATE of all fields by primary key; when no row has the key
\* gorm falls back to an INSERT of the value (upsert), so a Save of a row that
\* was deleted puts it back.
SaveRow(rows, r) ==
    IF r.id \in RowIDs(rows)
    THEN [i \in 1..Len(rows) |-> IF rows[i].id = r.id THEN r ELSE rows[i]]
    ELSE LET Before(x) == x.id < r.id
             After(x) == x.id > r.id
         IN  SelectSeq(rows, Before) \o <<r>> \o SelectSeq(rows, After)

\* Where("prefix = ?", pref).Find(&routes)
getRoutesByPrefix(rows, pref) == LET Is(r) == r.prefix = pref IN SelectSeq(rows, Is)

\* Where("node_id = ?", node.ID).Find(&routes)
GetNodeRoutes(rows, node) == LET Of(r) == r.node = node IN SelectSeq(rows, Of)

\* Where("prefix = ? AND node_id != ? AND advertised = ? AND enabled = ?").Count == 0
isUniquePrefix(rows, route) ==
    \A i \in 1..Len(rows) :
        ~(/\ rows[i].prefix = route.prefix /\ rows[i].node # route.node
          /\ rows[i].advertised /\ rows[i].enabled)

\* mutant: the replaced route keeps is_primary
failoverOld_keeps(r) == r

\* routeToReplace.IsPrimary = false
failoverOld(r) == [r EXCEPT !.primary = FALSE]

\* failoverRoute: the first other enabled route of a connected node takes over;
\* <<>> when there is none or nothing is to be replaced
failoverRoute(isConnected, routeToReplace, altRoutes) ==
    LET Suitable(i) == /\ altRoutes[i].id # routeToReplace.id
                       /\ altRoutes[i].enabled
                       /\ altRoutes[i].node \in isConnected
        cand == {i \in 1..Len(altRoutes) : Suitable(i)}
    IN  IF ~routeToReplace.primary \/ IsExitRoute(routeToReplace) \/ cand = {}
        THEN <<>>
        ELSE LET idx == CHOOSE i \in cand : \A j \in cand : i <= j
             IN  <<failoverOld(routeToReplace),
                   [altRoutes[idx] EXCEPT !.primary = TRUE]>>

\* failoverRouteTx: [rows, update]; update is <<>> for nil
failoverRouteTx(rows, isConnected, r) ==
    IF ~r.primary \/ IsExitRoute(r)
    THEN [rows |-> rows, update |-> <<>>]
    ELSE LET fo == failoverRoute(isConnected, r, getRoutesByPrefix(rows, r.prefix))
         IN  IF fo = <<>>
             THEN [rows |-> rows, update |-> <<>>]
             ELSE [rows |-> SaveRow(SaveRow(rows, fo[1]), fo[2]),
                   update |-> <<fo[1].node, fo[2].node>>]

\* DisableRoute's and DeleteRoute's else branch, over the node's routes in turn:
\* every exit route is saved with Enabled and IsPrimary false
RECURSIVE disableExitRoutes(_, _)
disableExitRoutes(rows, routes) ==
    IF routes = <<>> THEN rows
    ELSE disableExitRoutes(
            IF IsExitRoute(Head(routes))
            THEN SaveRow(rows, [Head(routes) EXCEPT !.enabled = FALSE,
                                                    !.primary = FALSE])
            ELSE rows,
            Tail(routes))

\* DisableRoute: [rows, ret, err]
DisableRoute(rows, id, isConnected) ==
    IF id \notin RowIDs(rows)
    THEN [rows |-> rows, ret |-> <<>>, err |-> TRUE]
    ELSE LET route == RowOf(rows, id)
         IN  IF ~IsExitRoute(route)
             THEN LET off == [route EXCEPT !.enabled = FALSE]
                      fo == failoverRouteTx(SaveRow(rows, off), isConnected, off)
                  IN  [rows |-> fo.rows,
                       ret |-> IF fo.update = <<>> THEN <<route.node>> ELSE fo.update,
                       err |-> FALSE]
             ELSE [rows |-> disableExitRoutes(rows, GetNodeRoutes(rows, route.node)),
                   ret |-> <<route.node>>, err |-> FALSE]

\* DeleteRoute: [rows, ret, err]
DeleteRoute(rows, id, isConnected) ==
    IF id \notin RowIDs(rows)
    THEN [rows |-> rows, ret |-> <<>>, err |-> TRUE]
    ELSE LET route == RowOf(rows, id)
         IN  IF ~IsExitRoute(route)
             THEN LET fo == failoverRouteTx(rows, isConnected, route)
                  IN  [rows |-> DeleteRow(fo.rows, id),
                       ret |-> IF fo.update = <<>> THEN <<route.node>> ELSE fo.update,
                       err |-> FALSE]
             ELSE LET Keep(r) == ~(r.node = route.node /\ IsExitRoute(r))
                  IN  [rows |-> SelectSeq(rows, Keep), ret |-> <<route.node>>,
                       err |-> FALSE]

\* deleteNodeRoutes' loop over the routes it loaded: delete the row, then
\* failoverRouteTx with the loaded (now deleted) route
RECURSIVE deleteNodeRoutesLoop(_, _, _, _)
deleteNodeRoutesLoop(rows, routes, isConnected, changed) ==
    IF routes = <<>> THEN [rows |-> rows, ret |-> changed, err |-> FALSE]
    ELSE LET fo == failoverRouteTx(DeleteRow(rows, Head(routes).id), isConnected,
                                   Head(routes))
         IN  deleteNodeRoutesLoop(fo.rows, Tail(routes), isConnected,
                                  changed \o fo.update)

deleteNodeRoutes(rows, node, isConnected) ==
    deleteNodeRoutesLoop(rows, GetNodeRoutes(rows, node), isConnected, <<>>)

\* FailoverRouteIfAvailable's inner loop over the routes of one prefix, as
\* loaded before the loop: [rows, changed, done]; done when a primary route of a
\* connected node made the function return nil, nil
RECURSIVE failoverPrefixLoop(_, _, _, _)
failoverPrefixLoop(rows, routes, isConnected, changed) ==
    IF routes = <<>> THEN [rows |-> rows, changed |-> changed, done |-> FALSE]
    ELSE IF ~Head(routes).primary
         THEN failoverPrefixLoop(rows, Tail(routes), isConnected, changed)
    ELSE IF Head(routes).node \in isConnected
         THEN [rows |-> rows, changed |-> changed, done |-> TRUE]
    ELSE LET fo == failoverRouteTx(rows, isConnected, Head(routes))
         IN  failoverPrefixLoop(fo.rows, Tail(routes), isConnected,
                                changed \o fo.update)

\* its outer loop over the node's routes
RECURSIVE failoverNodeLoop(_, _, _, _)
failoverNodeLoop(rows, nodeRoutes, isConnected, changed) ==
    IF nodeRoutes = <<>> THEN [rows |-> rows, ret |-> changed, err |-> FALSE]
    ELSE LET inner == failoverPrefixLoop(
                         rows, getRoutesByPrefix(rows, Head(nodeRoutes).prefix),
                         isConnected, changed)
         IN  IF inner.done
             THEN [rows |-> inner.rows, ret |-> <<>>, err |-> FALSE]
             ELSE failoverNodeLoop(inner.rows, Tail(nodeRoutes), isConnected,
                                   inner.changed)

\* FailoverRouteIfAvailable: ret is the ChangeNodes of the PeerChanged update,
\* <<>> for a nil update
FailoverRouteIfAvailable(rows, isConnected, node) ==
    failoverNodeLoop(rows, GetNodeRoutes(rows, node), isConnected, <<>>)

\* SaveNodeRoutes' first loop, over the node's current routes: a route the node
\* advertises is marked advertised, one it no longer advertises is saved with
\* Advertised and Enabled false
RECURSIVE saveCurrentRoutes(_, _, _, _)
saveCurrentRoutes(rows, current, routable, sendUpdate) ==
    IF current = <<>> THEN [rows |-> rows, sendUpdate |-> sendUpdate]
    ELSE LET route == Head(current)
         IN  IF route.prefix \in routable
             THEN IF ~route.advertised
                  THEN saveCurrentRoutes(
                          SaveRow(rows, [route EXCEPT !.advertised = TRUE]),
                          Tail(current), routable, sendUpdate \/ route.enabled)
                  ELSE saveCurrentRoutes(rows, Tail(current), routable, sendUpdate)
             ELSE IF route.advertised
                  THEN saveCurrentRoutes(
                          SaveRow(rows, [route EXCEPT !.advertised = FALSE,
                                                      !.enabled = FALSE]),
                          Tail(current), routable, sendUpdate)
                  ELSE saveCurrentRoutes(rows, Tail(current), routable, sendUpdate)

\* its second loop: tx.Create for the advertised prefixes without a row, in the
\* order the map iteration yields them
RECURSIVE createRoutes(_, _, _, _)
createRoutes(rows, nextID, node, order) ==
    IF order = <<>> THEN [rows |-> rows, nextID |-> nextID]
    ELSE createRoutes(
            Append(rows, [id |-> nextID, node |-> node, prefix |-> Head(order),
                          advertised |-> TRUE, enabled |-> FALSE,
                          primary |-> FALSE]),
            nextID + 1, node, Tail(order))

\* the orders in which a set of prefixes can be iterated
Orders(S) ==
    {o \in [1..Cardinality(S) -> S] : \A i, j \in 1..Cardinality(S) :
                                          i # j => o[i] # o[j]}

MissingPrefixes(rows, node, routable) ==
    routable \ {GetNodeRoutes(rows, node)[i].prefix :
                    i \in 1..Len(GetNodeRoutes(rows, node))}

\* SaveNodeRoutes: [rows, nextID, ret, err], ret = <<sendUpdate>>
SaveNodeRoutes(rows, nextID, node, routable, order) ==
    LET saved == saveCurrentRoutes(rows, GetNodeRoutes(rows, node), routable, FALSE)
        made == createRoutes(saved.rows, nextID, node, order)
    IN  [rows |-> made.rows, nextID |-> made.nextID,
         ret |-> <<saved.sendUpdate>>, err |-> FALSE]

\* enableRoutes (its body is not in this repository's files at hand): every
\* prefix must be advertised by the node, or nothing is changed and
\* ErrRouteIsNotAvailable returned; then each of the node's routes with one of
\* the prefixes is enabled, and a route that is no exit route becomes primary
\* when no other node has the prefix advertised and enabled.
enableRoutes(rows, node, prefixes) ==
    LET mine == GetNodeRoutes(rows, node)
        Advertised(pref) == \E i \in 1..Len(mine) :
                                mine[i].prefix = pref /\ mine[i].advertised
        On(r) == IF r.node = node /\ r.prefix \in prefixes
                 THEN [r EXCEPT !.enabled = TRUE,
                                !.primary = IF IsExitRoute(r) THEN r.primary
                                            ELSE isUniquePrefix(rows, r)]
                 ELSE r
    IN  IF \E pref \in prefixes : ~Advertised(pref)
        THEN [rows |-> rows, ret |-> <<>>, err |-> TRUE]
        ELSE [rows |-> [i \in 1..Len(rows) |-> On(rows[i])],
              ret |-> <<node>>, err |-> FALSE]

\* EnableRoute: an exit route is enabled together with its pair
EnableRoute(rows, id) ==
    IF id \notin RowIDs(rows)
    THEN [rows |-> rows, ret |-> <<>>, err |-> TRUE]
    ELSE LET route == RowOf(rows, id)
         IN  IF IsExitRoute(route)
             THEN enableRoutes(rows, route.node, {ExitRouteV4, ExitRouteV6})
             ELSE enableRoutes(rows, route.node, {route.prefix})

\* ------------------------------------------------------- route transactions
\* one transaction: the table becomes what the operation left
Committed(r, nextID) ==
    /\ store' = [rows |-> r.rows, nextID |-> nextID]
    /\ UNCHANGED <<batcher, noise, filter>>

Tx_SaveNodeRoutes(routers, prefixes) ==
    \E node \in routers : \E routable \in SUBSET prefixes :
        \E order \in Orders(MissingPrefixes(store.rows, node, routable)) :
            /\ store.nextID + Len(order) - 1 <= MaxRouteID
            /\ LET r == SaveNodeRoutes(store.rows, store.nextID, node, routable, order)
               IN  Committed(r, r.nextID)

Tx_EnableRoute ==
    \E id \in RowIDs(store.rows) :
        Committed(EnableRoute(store.rows, id),
                  store.nextID)

Tx_DisableRoute ==
    \E id \in RowIDs(store.rows) : \E isConnected \in ConnectedMaps :
        Committed(DisableRoute(store.rows, id, isConnected), store.nextID)

Tx_DeleteRoute ==
    \E id \in RowIDs(store.rows) : \E isConnected \in ConnectedMaps :
        Committed(DeleteRoute(store.rows, id, isConnected), store.nextID)

Tx_deleteNodeRoutes ==
    \E node \in RouteNodes : \E isConnected \in ConnectedMaps :
        Committed(deleteNodeRoutes(store.rows, node, isConnected), store.nextID)

Tx_FailoverRouteIfAvailable ==
    \E node \in RouteNodes : \E isConnected \in ConnectedMaps :
        Committed(FailoverRouteIfAvailable(store.rows, isConnected, node),
                  store.nextID)

\* The route manager over subnet prefixes.
NextRoutes ==
    \/ Tx_SaveNodeRoutes(RouteNodes, SubnetPrefixes)
    \/ Tx_EnableRoute
    \/ Tx_DisableRoute
    \/ Tx_DeleteRoute
    \/ Tx_deleteNodeRoutes
    \/ Tx_FailoverRouteIfAvailable

SpecRoutes == Init /\ [][NextRoutes]_vars

\* The route manager over the exit routes and one subnet prefix.
NextExitRoutes ==
    \/ Tx_SaveNodeRoutes({1}, ExitPrefixes \cup {"10.0.0.0/24"})
    \/ Tx_SaveNodeRoutes({2}, {"10.0.0.0/24"})
    \/ Tx_EnableRoute
    \/ Tx_DisableRoute
    \/ Tx_DeleteRoute
    \/ Tx_deleteNodeRoutes
    \/ Tx_FailoverRouteIfAvailable

SpecExitRoutes == Init /\ [][NextExitRoutes]_vars

\* ----------------------------------------------------------- route claims
AtMostOnePrimary(rows) ==
    \A i, j \in 1..Len(rows) :
        (rows[i].prefix = rows[j].prefix /\ rows[i].primary /\ rows[j].primary)
            => i = j

\* C12: from a table with at most one primary route per prefix, failover
\* (FailoverRouteIfAvailable, failoverRouteTx), DisableRoute, DeleteRoute and
\* SaveNodeRoutes, with any arguments, leave at most one primary route per
\* prefix.
C12_OnePrimaryKept ==
    LET rows == store.rows
    IN  AtMostOnePrimary(rows) =>
          /\ \A node \in RouteNodes : \A isConnected \in ConnectedMaps :
                AtMostOnePrimary(FailoverRouteIfAvailable(rows, isConnected, node).rows)
          /\ \A id \in RowIDs(rows) : \A isConnected \in ConnectedMaps :
                /\ AtMostOnePrimary(failoverRouteTx(rows, isConnected,
                                                    RowOf(rows, id)).rows)
                /\ AtMostOnePrimary(DisableRoute(rows, id, isConnected).rows)
                /\ AtMostOnePrimary(DeleteRoute(rows, id, isConnected).rows)
          /\ \A node \in RouteNodes : \A routable \in SUBSET SubnetPrefixes :
                \A order \in Orders(MissingPrefixes(rows, node, routable)) :
                   AtMostOnePrimary(SaveNodeRoutes(rows, store.nextID, node,
                                                   routable, order).rows)

\* a table whose primary route for a prefix moves to another node's route when
\* it is disabled
C12_Witness ==
    /\ AtMostOnePrimary(store.rows)
    /\ \E id \in RowIDs(store.rows) : \E isConnected \in ConnectedMaps :
          LET old == RowOf(store.rows, id)
              after == DisableRoute(store.rows, id, isConnected).rows
          IN  /\ old.primary
              /\ ~RowOf(after, id).primary
              /\ \E i \in 1..Len(after) :
                    /\ after[i].prefix = old.prefix /\ after[i].node # old.node
                    /\ after[i].primary


\* ---------------------------------------------------------------------------
\* Failover of a disconnected primary

\* the rows of the table, as a set
RowSet(rows) == {rows[i] : i \in 1..Len(rows)}

\* node holds the primary route for prefix p and is not connected, and another
\* node that is connected has an advertised, enabled route for p
FailoverDue(rows, isConnected, node, p) ==
    /\ node \notin isConnected
    /\ \E x \in RowSet(rows) : x.node = node /\ x.prefix = p /\ x.primary
    /\ \E y \in RowSet(rows) : /\ y.node # node /\ y.prefix = p
                               /\ y.advertised /\ y.enabled
                               /\ y.node \in isConnected

\* after the call the primary for p is on a connected node other than node,
\* and the returned update names node and that node
FailedOver(res, isConnected, node, p) ==
    \E y \in RowSet(res.rows) :
        /\ y.prefix = p /\ y.primary /\ y.node # node
        /\ y.node \in isConnected
        /\ \E i, j \in 1..Len(res.ret) : res.ret[i] = node /\ res.ret[j] = y.node
        /\ \A x \in RowSet(res.rows) : x.prefix = p /\ x.node = node => ~x.primary

\* C13: when the node holding the primary route for prefix p is not connected
\* and another node advertises p and is connected, FailoverRouteIfAvailable
\* moves is_primary for p to such a node and returns a PeerChanged update that
\* names both the old and the new primary node.
\* Violated: the call returns nil, nil at the first of the node's prefixes whose
\* primary is on a connected node, and never looks at the node's later prefixes.
C13_FailoverMovesPrimary ==
    AtMostOnePrimary(store.rows) =>
        \A node \in RouteNodes, isConnected \in ConnectedMaps, p \in SubnetPrefixes :
            FailoverDue(store.rows, isConnected, node, p) =>
                FailedOver(FailoverRouteIfAvailable(store.rows, isConnected, node),
                           isConnected, node, p)


\* ---------------------------------------------------------------------------
\* Exit routes come in pairs

\* the exit routes of each node have equal enabled flags
ExitPairEqual(rows) ==
    \A x, y \in RowSet(rows) :
        x.node = y.node /\ IsExitRoute(x) /\ IsExitRoute(y) => x.enabled = y.enabled

\* C14: EnableRoute or DisableRoute applied to either exit route of a node
\* sets the enabled flag of both of the node's exit routes to the same value,
\* and after any sequence of route operations including SaveNodeRoutes the
\* two exit routes of a node have equal enabled flags.
\* Violated: SaveNodeRoutes for a node that stopped advertising one of its two
\* enabled exit routes clears Enabled on that route only.
C14_ExitRoutesPaired == ExitPairEqual(store.rows)


\* ---------------------------------------------------------------------------
\* Routes go with their node

\* C15: after deleteNodeRoutes(node) completes without error, no route row
\* owned by that node remains in the store, whether or not one of its routes
\* was primary and was failed over to another node during the deletion.
\* Violated: the loop deletes the row and then hands the deleted route to
\* failoverRouteTx, whose tx.Save(fo.old) writes the row back.
C15_NodeRoutesGone ==
    \A node \in RouteNodes, isConnected \in ConnectedMaps :
        LET res == deleteNodeRoutes(store.rows, node, isConnected)
        IN  ~res.err => GetNodeRoutes(res.rows, node) = <<>>


\* ===========================================================================
\* The Noise control transport (hscontrol/noise.go): the upgrade of /ts2021 and
\* the handlers served over the upgraded connection.  noise holds one
\* connection: conn (what NoiseUpgradeHandler made of it), db (the nodes the
\* handlers look up), clock (hours), resp (the request served last and the
\* response written for it), issued (the wait URLs sent out in hold-and-delegate
\* responses), admitted (the wait URLs SSHWaitHandler answered with accept, and
\* when it did so last, and whether the URL had been issued by then) and registered (the capability versions of the register requests
\* handed to handleRegister).

\* capver.MinSupportedCapabilityVersion, scaled down to a small number
MinSupportedCapabilityVersion == 2
\* the capability versions clients announce
CapabilityVersions == 0..(MinSupportedCapabilityVersion + 1)
\* a request body that did not decode carries no capVer
NoVersion == -1

\* recentLoginWindow := time.Hour * 24, in hours
recentLoginWindow == 24
HourStep == 12
MaxHours == 36

\* the nodes in the database; URLIDs are the ids a request URL can carry: those
\* of the nodes, UnknownNode that no node has, and Unparsable for a digit string
\* strconv.ParseUint rejects (the route admits [0-9]+ only)
SSHNodeIDs == {1, 2}
UnknownNode == 3
Unparsable == 4
URLIDs == SSHNodeIDs \cup {UnknownNode, Unparsable}
\* util.RandomString(16)
RandomStrings == {"a"}
NoToken == [id |-> 0, rand |-> ""]
\* the auth tokens a wait URL can carry: "<id>-<random>"
Tokens == [id : SSHNodeIDs, rand : RandomStrings]

\* the machine key of node n
MachineKeyOf(n) == n
\* the node tables of the SSH handlers: node 1 varies in every attribute the
\* handlers read, node 2 in being tagged
NodeDBs ==
    {[n \in SSHNodeIDs |->
        IF n = 1
        THEN [machineKey |-> MachineKeyOf(1), tagged |-> t1, user |-> u1,
              expired |-> e1, lastSeen |-> l1]
        ELSE [machineKey |-> MachineKeyOf(2), tagged |-> t2, user |-> 1,
              expired |-> FALSE, lastSeen |-> NilTime]] :
        t1 \in BOOLEAN, u1 \in {1, 2}, e1 \in BOOLEAN, l1 \in {NilTime, HourStep},
        t2 \in BOOLEAN}

NoConn == [state |-> "none", machineKey |-> 0, protocolVersion |-> 0, early |-> FALSE]
NoResponse == [handler |-> "none", src |-> 0, dst |-> 0, auth |-> NoToken,
               version |-> NoVersion, status |-> 0, body |-> "", token |-> NoToken]

\* types.Node.IsTagged, types.Node.IsExpired
IsTagged_never(node) == FALSE
IsTagged(node) == node.tagged
IsExpired(node) == node.expired

isSupportedVersion_any(capVer) == TRUE
isSupportedVersion(capVer) == capVer >= MinSupportedCapabilityVersion

\* earlyNoise: an unsupported version returns the error before any write
earlyNoise(protocolVersion) ==
    IF ~isSupportedVersion(protocolVersion)
    THEN [err |-> TRUE, written |-> FALSE]
    ELSE [err |-> FALSE, written |-> TRUE]

\* rejectUnsupported: TRUE when it wrote the 400
rejectUnsupported(capVer) == ~isSupportedVersion(capVer)

\* MapHandler's response; a body that does not decode is answered by
\* httpError(err), a node key no node has by 404
MapHandler(n, decoded, capVer, nodeKey) ==
    LET R(v, status, body) == [NoResponse EXCEPT !.handler = "map", !.version = v,
                                                 !.status = status, !.body = body]
    IN  IF ~decoded THEN R(NoVersion, 500, "error")
        ELSE IF rejectUnsupported(capVer) THEN R(capVer, 400, "unsupported client version")
        ELSE IF nodeKey \notin DOMAIN n.db THEN R(capVer, 404, "node not found")
        ELSE R(capVer, 200, "MapResponse")

\* RegistrationHandler's response.  The request is read and handed to
\* handleRegister first (outcome is what handleRegister returned); the version
\* is looked at afterwards, in whatever the decoder left in registerRequest.
RegistrationHandler(n, method, decoded, capVer, outcome) ==
    LET R(status, body) == [NoResponse EXCEPT !.handler = "register", !.version = capVer,
                                              !.status = status, !.body = body]
    IN  IF method # "POST" THEN R(405, "method not allowed")
        ELSE IF rejectUnsupported(capVer) THEN R(400, "unsupported client version")
        ELSE IF ~decoded THEN R(200, "RegisterResponse.Error")
        ELSE R(200, outcome)

\* SSHActionHandler's response; token is the auth token of the wait URL of a
\* hold-and-delegate action
SSHActionHandler(n, src, dst, rand) ==
    LET R(status, body, token) ==
            [NoResponse EXCEPT !.handler = "action", !.src = src, !.dst = dst,
                               !.status = status, !.body = body, !.token = token]
    IN  IF src = Unparsable \/ dst = Unparsable THEN R(400, "error", NoToken)
        ELSE IF dst \notin DOMAIN n.db THEN R(404, "error", NoToken)
        ELSE IF n.db[dst].machineKey # n.conn.machineKey THEN R(401, "error", NoToken)
        ELSE IF src \notin DOMAIN n.db THEN R(404, "error", NoToken)
        ELSE IF IsTagged(n.db[src]) THEN R(200, "reject", NoToken)
        ELSE IF ~IsTagged(n.db[dst]) /\ n.db[dst].user # n.db[src].user
             THEN R(200, "reject", NoToken)
        ELSE IF IsExpired(n.db[src]) THEN R(200, "reject", NoToken)
        ELSE IF /\ n.db[src].lastSeen # NilTime
                /\ n.clock - n.db[src].lastSeen < recentLoginWindow
             THEN R(200, "accept", NoToken)
        ELSE R(200, "holdAndDelegate", [id |-> src, rand |-> rand])

\* SSHWaitHandler's response: any token that starts with "<source id>-" is
\* answered with accept
SSHWaitHandler(n, src, dst, auth) ==
    LET R(status, body) ==
            [NoResponse EXCEPT !.handler = "wait", !.src = src, !.dst = dst,
                               !.auth = auth, !.status = status, !.body = body]
    IN  IF src = Unparsable \/ dst = Unparsable THEN R(400, "error")
        ELSE IF dst \notin DOMAIN n.db THEN R(404, "error")
        ELSE IF n.db[dst].machineKey # n.conn.machineKey THEN R(401, "error")
        ELSE IF src \notin DOMAIN n.db THEN R(404, "error")
        ELSE IF auth.id # src THEN R(401, "error")
        ELSE R(200, "accept")

\* a connection before the upgrade, with node table db
NewConn(db) ==
    [conn |-> NoConn, db |-> db, clock |-> 2 * HourStep, resp |-> NoResponse,
     issued |-> {}, admitted |-> {}, registered |-> {}]

\* a step of the transport
Served(n) == noise' = n /\ UNCHANGED <<batcher, store, filter>>

\* NoiseUpgradeHandler: without an Upgrade header 500; AcceptHTTP runs
\* earlyNoise with the version of the handshake and fails when it fails
NoiseUpgradeHandler ==
    /\ noise.conn.state = "none"
    /\ \E upgrade \in BOOLEAN, capVer \in CapabilityVersions, mkey \in SSHNodeIDs :
        LET early == earlyNoise(capVer)
        IN  Served([noise EXCEPT !.conn =
                IF ~upgrade \/ early.err
                THEN [NoConn EXCEPT !.state = "failed", !.protocolVersion = capVer]
                ELSE [state |-> "up", machineKey |-> MachineKeyOf(mkey),
                      protocolVersion |-> capVer, early |-> early.written]])

Serve_MapHandler ==
    /\ noise.conn.state = "up"
    /\ \E decoded \in BOOLEAN, capVer \in CapabilityVersions,
          nodeKey \in SSHNodeIDs \cup {UnknownNode} :
        Served([noise EXCEPT !.resp = MapHandler(noise, decoded, capVer, nodeKey)])

\* the router passes POST requests only; handleRegister runs for every body
\* that decoded
Serve_RegistrationHandler ==
    /\ noise.conn.state = "up"
    /\ \E decoded \in BOOLEAN, capVer \in CapabilityVersions,
          outcome \in {"RegisterResponse", "RegisterResponse.Error"} :
        Served([noise EXCEPT
            !.resp = RegistrationHandler(noise, "POST", decoded, capVer, outcome),
            !.registered = IF decoded THEN @ \cup {capVer} ELSE @])

Serve_SSHActionHandler ==
    /\ noise.conn.state = "up"
    /\ \E src, dst \in URLIDs, rand \in RandomStrings :
        LET r == SSHActionHandler(noise, src, dst, rand)
        IN  Served([noise EXCEPT
                !.resp = r,
                !.issued = IF r.body = "holdAndDelegate"
                           THEN @ \cup {[src |-> src, dst |-> dst, auth |-> r.token]}
                           ELSE @])

Serve_SSHWaitHandler ==
    /\ noise.conn.state = "up"
    /\ \E src, dst \in URLIDs, auth \in Tokens :
        LET r == SSHWaitHandler(noise, src, dst, auth)
        IN  Served([noise EXCEPT
                !.resp = r,
                !.admitted = IF r.body = "accept"
                             THEN {a \in @ : <<a.src, a.dst, a.auth>> # <<src, dst, auth>>}
                                  \cup {[src |-> src, dst |-> dst, auth |-> auth,
                                          at |-> noise.clock,
                                          known |-> [src |-> src, dst |-> dst,
                                                     auth |-> auth] \in noise.issued]}
                             ELSE @])

\* time passes
Hour ==
    /\ noise.clock + HourStep <= MaxHours
    /\ Served([noise EXCEPT !.clock = @ + HourStep])

\* The upgrade and the map and register handlers of one connection.
InitNoise ==
    /\ NewBatcher /\ store = NoRoutes /\ filter = NoPolicy
    /\ noise = NewConn(CHOOSE db \in NodeDBs : \A i \in SSHNodeIDs : ~db[i].tagged)

NextNoise == NoiseUpgradeHandler \/ Serve_MapHandler \/ Serve_RegistrationHandler

SpecNoise == InitNoise /\ [][NextNoise]_vars

\* The SSH check handlers of an upgraded connection, for every node table.
InitSSH ==
    /\ NewBatcher /\ store = NoRoutes /\ filter = NoPolicy
    /\ \E db \in NodeDBs, mkey \in SSHNodeIDs :
        noise = [NewConn(db) EXCEPT !.conn =
                    [state |-> "up", machineKey |-> MachineKeyOf(mkey),
                     protocolVersion |-> MinSupportedCapabilityVersion, early |-> TRUE]]

NextSSH == Serve_SSHActionHandler \/ Serve_SSHWaitHandler \/ Hour

SpecSSH == InitSSH /\ [][NextSSH]_vars


\* ------------------------------------------------------- transport claims

\* C16: with an SSH check policy between source S and destination D and no
\* recent check, the first SSHActionHandler call returns a hold-and-delegate
\* action; after SSHWaitHandler has been invoked with the valid token, a second
\* SSHActionHandler call for (S, D) within the recency window returns accept.
\* Violated: SSHWaitHandler records nothing and SSHActionHandler consults only
\* the source's LastSeen, so the second call holds and delegates again.
C16_CheckThenAccept ==
    [][\A a \in noise.admitted :
          ( /\ a.known
            /\ a.src # a.dst
            /\ noise.clock - a.at < recentLoginWindow
            /\ noise'.clock = noise.clock
            /\ noise'.admitted = noise.admitted
            /\ noise'.resp.handler = "action"
            /\ noise'.resp.src = a.src
            /\ noise'.resp.dst = a.dst )
          => noise'.resp.body = "accept"]_vars

\* C17: SSHActionHandler returns neither an accept nor a hold-and-delegate
\* action when the destination's machine key differs from the connection's
\* machine key, the source node is tagged, the destination is untagged and
\* owned by a different user than the source, or the source node is expired.
C17_ValidationRejects ==
    LET r == noise.resp
        Refused == r.body \notin {"accept", "holdAndDelegate"}
    IN  r.handler = "action" =>
          /\ (r.dst \in SSHNodeIDs /\ noise.db[r.dst].machineKey # noise.conn.machineKey)
                => Refused
          /\ (r.dst \in SSHNodeIDs /\ r.src \in SSHNodeIDs) =>
                /\ noise.db[r.src].tagged => Refused
                /\ (~noise.db[r.dst].tagged
                    /\ noise.db[r.dst].user # noise.db[r.src].user) => Refused
                /\ noise.db[r.src].expired => Refused

\* an expired source that passes every other validation was answered with the
\* reject action
C17_Witness ==
    LET r == noise.resp
    IN  /\ r.handler = "action" /\ r.status = 200 /\ r.body = "reject"
        /\ noise.db[r.dst].machineKey = noise.conn.machineKey
        /\ ~noise.db[r.src].tagged
        /\ noise.db[r.dst].user = noise.db[r.src].user
        /\ noise.db[r.src].expired

\* C18: MapHandler and RegistrationHandler answer every request whose
\* capability version is below the minimum supported version with HTTP 400 and
\* never with a success body, and the Noise upgrade writes no early payload for
\* such a version.
C18_UnsupportedIs400 ==
    /\ ( /\ noise.resp.handler \in {"map", "register"}
         /\ noise.resp.version # NoVersion
         /\ noise.resp.version < MinSupportedCapabilityVersion )
       => /\ noise.resp.status = 400
          /\ noise.resp.body \notin {"MapResponse", "RegisterResponse"}
    /\ noise.conn.protocolVersion < MinSupportedCapabilityVersion
       => ~noise.conn.early

\* a register request of an unsupported version, decoded and handed to
\* handleRegister, was answered with 400
C18_Witness ==
    /\ noise.resp.handler = "register"
    /\ noise.resp.version \in noise.registered
    /\ noise.resp.version < MinSupportedCapabilityVersion
    /\ noise.resp.status = 400


\* ===========================================================================
\* The filter compilers: Policy.compileFilterRules of hscontrol/policy/v2 with
\* its mergeFilterRules, and Policy.CompileFilterRules of hscontrol/policyv2.
\* filter holds the call made last: op, its input and the rules and error it
\* returned.  An ACL is taken after its sources and protocol are resolved: src
\* is the prefix list of its source set, proto its IPProto list.

MaxRules == 3

PortRangeAny == [first |-> 0, last |-> 65535]
Port(p) == [first |-> p, last |-> p]
\* tailcfg.FilterAllowAll
FilterAllowAll ==
    <<[SrcIPs |-> <<"*">>, DstPorts |-> <<[IP |-> "*", Ports |-> PortRangeAny]>>,
       IPProto |-> <<>>]>>

\* Asterix.Resolve and Host.Resolve: the prefixes of the resolved set; <<>> for
\* a host the policy does not define (nil set, and an error in policyv2)
Resolve(alias) ==
    CASE alias = "*" -> <<"0.0.0.0/0", "::/0">>
      [] alias = "host-1" -> <<"100.100.100.100/32">>
      [] OTHER -> <<>>

\* the ACLs of the policies compiled
ACLs ==
    {[action |-> "accept", src |-> s, proto |-> <<6>>, dst |-> d] :
        s \in {<<"100.100.101.0/24">>, <<"100.100.101.0/24", "192.168.1.0/24">>},
        d \in {<<[alias |-> "*", ports |-> <<Port(22), Port(3389)>>]>>,
               <<[alias |-> "host-1", ports |-> <<PortRangeAny>>]>>,
               <<[alias |-> "*", ports |-> <<Port(22)>>],
                 [alias |-> "host-1", ports |-> <<PortRangeAny>>]>>,
               <<[alias |-> "autogroup:internet", ports |-> <<PortRangeAny>>]>>,
               <<[alias |-> "host-2", ports |-> <<Port(22)>>]>>}}
    \cup {[action |-> "accept", src |-> <<>>, proto |-> <<6>>,
           dst |-> <<[alias |-> "*", ports |-> <<Port(22)>>]>>],
          [action |-> "accept", src |-> <<"100.100.101.0/24">>, proto |-> <<6, 17>>,
           dst |-> <<[alias |-> "*", ports |-> <<Port(22)>>]>>],
          [action |-> "deny", src |-> <<"100.100.101.0/24">>, proto |-> <<6>>,
           dst |-> <<[alias |-> "*", ports |-> <<Port(22)>>]>>]}

\* a policy is its ACL list; NilACLs is a policy without acls
NilACLs == <<[action |-> "nil", src |-> <<>>, proto |-> <<>>, dst |-> <<>>]>>
Policies == {NilACLs, <<>>} \cup {<<a>> : a \in ACLs} \cup {<<a, b>> : a, b \in ACLs}

\* the rule lists handed to mergeFilterRules
FilterRules ==
    LET R(src, proto, dst) == [SrcIPs |-> src, IPProto |-> proto, DstPorts |-> <<dst>>]
        ssh == [IP |-> "*", Ports |-> Port(22)]
        host == [IP |-> "100.100.100.100/32", Ports |-> PortRangeAny]
    IN  {R(<<"100.100.101.0/24">>, <<6>>, ssh),
         R(<<"100.100.101.0/24">>, <<6>>, host),
         R(<<"100.100.101.0/24">>, <<6, 17>>, ssh),
         R(<<"100.100.101.0/24", "192.168.1.0/24">>, <<6>>, host)}
RuleLists == UNION {[1..n -> FilterRules] : n \in 0..MaxRules}

\* one NetPortRange per port range, for ip
RECURSIVE portRanges(_, _)
portRanges(ip, ports) ==
    IF ports = <<>> THEN <<>>
    ELSE <<[IP |-> ip, Ports |-> Head(ports)]>> \o portRanges(ip, Tail(ports))

\* for _, pref := range prefixes { for _, port := range dest.Ports { ... } }
RECURSIVE prefixPorts(_, _)
prefixPorts(prefixes, ports) ==
    IF prefixes = <<>> THEN <<>>
    ELSE portRanges(Head(prefixes), ports) \o prefixPorts(Tail(prefixes), ports)

\* compileFilterRules' loop over acl.Destinations: a wildcard is emitted as "*",
\* autogroup:internet and a nil set are skipped
RECURSIVE destPorts(_)
destPorts(dests) ==
    IF dests = <<>> THEN <<>>
    ELSE LET dest == Head(dests)
         IN  (CASE dest.alias = "*" -> portRanges("*", dest.ports)
                [] dest.alias = "autogroup:internet" -> <<>>
                [] OTHER -> prefixPorts(Resolve(dest.alias), dest.ports))
             \o destPorts(Tail(dests))

\* strings.Join
RECURSIVE Join(_, _)
Join(elems, sep) ==
    IF elems = <<>> THEN ""
    ELSE IF Len(elems) = 1 THEN elems[1]
    ELSE elems[1] \o sep \o Join(Tail(elems), sep)

\* filterRuleKey
filterRuleKey(rule) ==
    Join(rule.SrcIPs, ",") \o "|"
        \o Join([i \in 1..Len(rule.IPProto) |-> ToString(rule.IPProto[i])], ",")

\* keyToIdx[key]: the index in result of the rule with this key, 0 for none
keyToIdx_last(result, key) ==
    IF result # <<>> /\ filterRuleKey(result[Len(result)]) = key THEN Len(result) ELSE 0
keyToIdx(result, key) ==
    IF \E i \in 1..Len(result) : filterRuleKey(result[i]) = key
    THEN CHOOSE i \in 1..Len(result) : filterRuleKey(result[i]) = key
    ELSE 0

\* mergeFilterRules' loop
RECURSIVE mergeLoop(_, _)
mergeLoop(rules, result) ==
    IF rules = <<>> THEN result
    ELSE LET rule == Head(rules)
             idx == keyToIdx(result, filterRuleKey(rule))
         IN  mergeLoop(Tail(rules),
                 IF idx # 0
                 THEN [result EXCEPT ![idx].DstPorts = @ \o rule.DstPorts]
                 ELSE Append(result, rule))

mergeFilterRules(rules) == IF Len(rules) <= 1 THEN rules ELSE mergeLoop(rules, <<>>)

\* compileFilterRules' loop over pol.ACLs: [rules, err]
\* Aliases.Resolve over an ACL's sources: the prefixes of the union of the
\* sets the sources resolve to; autogroup:self resolves to no set (an error
\* that the callers only log).  The prefixes listed by one ACL are disjoint
\* and sorted, so the union lists them as they are.
ResolveSources(srcs) ==
    LET Resolves(s) == s # "autogroup:self"
    IN  SelectSeq(srcs, Resolves)

RECURSIVE compileACLs(_, _)
compileACLs(acls, rules) ==
    IF acls = <<>> THEN [rules |-> rules, err |-> ""]
    ELSE LET acl == Head(acls)
             ports == destPorts(acl.dst)
             srcIPs == ResolveSources(acl.src)
         IN  IF acl.action # "accept" THEN [rules |-> <<>>, err |-> "invalid action"]
             ELSE IF srcIPs = <<>> \/ ports = <<>> THEN compileACLs(Tail(acls), rules)
             ELSE compileACLs(Tail(acls),
                      Append(rules, [SrcIPs |-> srcIPs, DstPorts |-> ports,
                                     IPProto |-> acl.proto]))

compileFilterRules(pol) ==
    IF pol = NilACLs THEN [rules |-> FilterAllowAll, err |-> ""]
    ELSE LET c == compileACLs(pol, <<>>)
         IN  IF c.err # "" THEN c ELSE [rules |-> mergeFilterRules(c.rules), err |-> ""]

\* policyv2: CompileFilterRules' loop over pol.ACLs.  Every destination alias
\* is resolved, the wildcard included; a host that does not resolve is an error
RECURSIVE CompileACLs(_, _)
CompileACLs(acls, rules) ==
    IF acls = <<>> THEN [rules |-> rules, err |-> ""]
    ELSE LET acl == Head(acls)
             Ports(i) == prefixPorts(Resolve(acl.dst[i].alias), acl.dst[i].ports)
             ports == IF Len(acl.dst) = 1 THEN Ports(1) ELSE Ports(1) \o Ports(2)
         IN  IF acl.action # "accept" THEN [rules |-> <<>>, err |-> "invalid action"]
             ELSE IF \E i \in 1..Len(acl.dst) : Resolve(acl.dst[i].alias) = <<>>
                  THEN [rules |-> <<>>, err |-> "unable to resolve host"]
             ELSE CompileACLs(Tail(acls),
                      Append(rules, [SrcIPs |-> acl.src, DstPorts |-> ports,
                                     IPProto |-> acl.proto]))

CompileFilterRules(pol) == CompileACLs(pol, <<>>)

\* a call returned
\* ------------------------------------------- per-node filter compilation
\* the nodes a filter is compiled for: users 1 and 2, node 4 tagged; one
\* address each, no two of them adjacent, so an IPSet of them lists each as a /32
PolicyNodes ==
    <<[id |-> 1, user |-> 1, tagged |-> FALSE, ip |-> "100.64.0.1"],
      [id |-> 2, user |-> 1, tagged |-> FALSE, ip |-> "100.64.0.3"],
      [id |-> 3, user |-> 2, tagged |-> FALSE, ip |-> "100.64.0.5"],
      [id |-> 4, user |-> 1, tagged |-> TRUE, ip |-> "100.64.0.7"]>>

\* the ACLs that name autogroup:self, as a source or as a destination
SelfACLs ==
    {[action |-> "accept", src |-> s, proto |-> <<6>>,
      dst |-> <<[alias |-> "*", ports |-> <<Port(22)>>]>>] :
        s \in {<<"autogroup:self">>, <<"100.64.0.0/10", "autogroup:self">>,
               <<"autogroup:self", "100.64.0.0/10">>, <<"100.64.0.0/10">>}}
    \cup {[action |-> "accept", src |-> s, proto |-> <<6>>, dst |-> d] :
        s \in {<<"100.64.0.0/10">>, <<"100.64.0.1/32">>, <<"100.100.101.0/24">>},
        d \in {<<[alias |-> "autogroup:self", ports |-> <<PortRangeAny>>]>>,
               <<[alias |-> "autogroup:self", ports |-> <<Port(22)>>],
                 [alias |-> "host-1", ports |-> <<PortRangeAny>>]>>}}
    \cup {[action |-> "deny", src |-> <<"autogroup:self">>, proto |-> <<6>>,
           dst |-> <<[alias |-> "*", ports |-> <<Port(22)>>]>>]}
SelfPolicies == {<<a>> : a \in SelfACLs} \cup {<<a, b>> : a, b \in SelfACLs}

\* netipx.IPSet.Contains for the source prefixes and node addresses above
Contains(prefix, ip) == prefix = "100.64.0.0/10" \/ prefix = ip \o "/32"

IsSelf(alias) == alias = "autogroup:self"
SelfInSources(acl) == \E i \in 1..Len(acl.src) : IsSelf(acl.src[i])
errSelfInSources == "autogroup:self cannot be used in sources"

\* the /32 prefixes of a node list (n.IPs() with one address per node)
nodePrefixes(ns) == [i \in 1..Len(ns) |-> ns[i].ip \o "/32"]

\* selfDestPorts naming every node's addresses
selfDestPorts_all(dests, sameUserNodes) ==
    IF dests = <<>> THEN <<>>
    ELSE prefixPorts(nodePrefixes(PolicyNodes), Head(dests).ports)

\* the destPorts loop over the autogroup:self destinations
RECURSIVE selfDestPorts(_, _)
selfDestPorts(dests, sameUserNodes) ==
    IF dests = <<>> THEN <<>>
    ELSE prefixPorts(nodePrefixes(sameUserNodes), Head(dests).ports)
         \o selfDestPorts(Tail(dests), sameUserNodes)

compileACLWithAutogroupSelf(acl, node) ==
    LET SelfDest(d) == IsSelf(d.alias)
        OtherDest(d) == ~IsSelf(d.alias)
        autogroupSelfDests == SelectSeq(acl.dst, SelfDest)
        otherDests == SelectSeq(acl.dst, OtherDest)
        resolvedSrcIPs == ResolveSources(acl.src)
        SameUser(n) == ~n.tagged /\ n.user = node.user
        sameUserNodes == SelectSeq(PolicyNodes, SameUser)
        InSources(n) == \E i \in 1..Len(resolvedSrcIPs) : Contains(resolvedSrcIPs[i], n.ip)
        srcSet == nodePrefixes(SelectSeq(sameUserNodes, InSources))
        selfPorts == selfDestPorts(autogroupSelfDests, sameUserNodes)
        selfRules ==
            IF /\ autogroupSelfDests # <<>> /\ ~node.tagged /\ sameUserNodes # <<>>
               /\ srcSet # <<>> /\ selfPorts # <<>>
            THEN <<[SrcIPs |-> srcSet, DstPorts |-> selfPorts, IPProto |-> acl.proto]>>
            ELSE <<>>
        otherPorts == destPorts(otherDests)
        otherRules ==
            IF otherDests # <<>> /\ otherPorts # <<>>
            THEN <<[SrcIPs |-> resolvedSrcIPs, DstPorts |-> otherPorts,
                    IPProto |-> acl.proto]>>
            ELSE <<>>
    IN  IF SelfInSources(acl) THEN [rules |-> <<>>, err |-> errSelfInSources]
        ELSE IF resolvedSrcIPs = <<>> THEN [rules |-> <<>>, err |-> ""]
        ELSE [rules |-> selfRules \o otherRules, err |-> ""]

\* the loop of compileFilterRulesForNode over pol.ACLs
RECURSIVE compileNodeACLs(_, _, _)
compileNodeACLs(acls, node, rules) ==
    IF acls = <<>> THEN [rules |-> mergeFilterRules(rules), err |-> ""]
    ELSE LET acl == Head(acls)
             aclRules == compileACLWithAutogroupSelf(acl, node)
         IN  IF acl.action # "accept" THEN [rules |-> <<>>, err |-> "invalid action"]
             ELSE IF aclRules.err # "" THEN compileNodeACLs(Tail(acls), node, rules)
             ELSE compileNodeACLs(Tail(acls), node, rules \o aclRules.rules)

compileFilterRulesForNode(pol, node) == compileNodeACLs(pol, node, <<>>)

\* ------------------------------------------------------ policy parsing
\* names are token sequences: <<"group:", "example">> is "group:example",
\* <<"valid", "@">> is "valid@"
GroupKeys == {<<"group:", "example">>, <<"grou:", "example">>}
Members == {<<"valid", "@">>, <<"invalid">>, <<"group:", "inner">>}
MemberLists == {<<>>} \cup {<<m>> : m \in Members} \cup {<<m, n>> : m, n \in Members}
GroupEntries == {[key |-> k, members |-> ms] : k \in GroupKeys, ms \in MemberLists}
ShortEntries == {e \in GroupEntries : Len(e.members) <= 1}

\* the documents parsed: one that is not HuJSON, and objects whose "groups"
\* member has up to two entries, in document order
Documents ==
    {[wellFormed |-> FALSE, groups |-> <<>>], [wellFormed |-> TRUE, groups |-> <<>>]}
    \cup {[wellFormed |-> TRUE, groups |-> <<e>>] : e \in GroupEntries}
    \cup {[wellFormed |-> TRUE, groups |-> <<e, f>>] : e, f \in ShortEntries}

\* strings.HasPrefix(s, "group:") and strings.Contains(s, "@")
HasGroupPrefix(name) == Len(name) > 0 /\ name[1] = "group:"
ContainsAt(name) == \E i \in 1..Len(name) : name[i] = "@"

GroupValidate(g) ==
    IF HasGroupPrefix(g) THEN "" ELSE "Group has to start with \"group:\""
UsernameValidate(u) ==
    IF ContainsAt(u) THEN "" ELSE "Username has to contain @"
GroupUnmarshalJSON(b) == [value |-> b, err |-> GroupValidate(b)]
UsernameUnmarshalJSON(b) == [value |-> b, err |-> UsernameValidate(b)]

\* json.Unmarshal into map[Group]Usernames: a key of a string type is stored by
\* conversion, the UnmarshalJSON of the key type is not called for it
decodeKey(key) == [value |-> key, err |-> ""]

\* json.Unmarshal into Usernames: every element through Username.UnmarshalJSON,
\* the first error ends the decoding
RECURSIVE decodeUsernames(_, _)
decodeUsernames(members, out) ==
    IF members = <<>> THEN [value |-> out, err |-> ""]
    ELSE LET u == UsernameUnmarshalJSON(Head(members))
         IN  IF u.err # "" THEN [value |-> out, err |-> u.err]
             ELSE decodeUsernames(Tail(members), Append(out, u.value))

\* json.Unmarshal into Groups: a later entry replaces an earlier one of the same key
RECURSIVE decodeGroups(_, _)
decodeGroups(entries, out) ==
    IF entries = <<>> THEN [value |-> out, err |-> ""]
    ELSE LET k == decodeKey(Head(entries).key)
             us == decodeUsernames(Head(entries).members, <<>>)
         IN  IF k.err # "" THEN [value |-> out, err |-> k.err]
             ELSE IF us.err # "" THEN [value |-> out, err |-> us.err]
             ELSE decodeGroups(Tail(entries),
                      {e \in out : e.key # k.value}
                          \cup {[key |-> k.value, members |-> us.value]})

NilPolicy == [nil |-> TRUE, Groups |-> {}]

PolicyFromBytes(b) ==
    IF ~b.wellFormed THEN [policy |-> NilPolicy, err |-> "parsing HuJSON"]
    ELSE LET groups == decodeGroups(b.groups, {})
         IN  IF groups.err # ""
             THEN [policy |-> NilPolicy, err |-> "parsing policy from bytes: " \o groups.err]
             ELSE [policy |-> [nil |-> FALSE, Groups |-> groups.value], err |-> ""]

Returns(op, input, out) ==
    /\ filter' = [op |-> op, input |-> input, rules |-> out.rules, err |-> out.err]
    /\ UNCHANGED <<batcher, store, noise>>

Call_compileFilterRules ==
    \E pol \in Policies \cup SelfPolicies :
        LET out == compileFilterRules(pol)
        IN  Returns("compileFilterRules", pol, out)

Call_CompileFilterRules ==
    \E pol \in Policies :
        /\ pol # NilACLs
        /\ \A i \in 1..Len(pol) : \A j \in 1..Len(pol[i].dst) :
              pol[i].dst[j].alias # "autogroup:internet"
        /\ Returns("CompileFilterRules", pol, CompileFilterRules(pol))

Call_mergeFilterRules ==
    \E rules \in RuleLists :
        LET out == [rules |-> mergeFilterRules(rules), err |-> ""]
        IN  Returns("mergeFilterRules", rules, out)

Call_compileFilterRulesForNode ==
    \E pol \in SelfPolicies : \E i \in 1..Len(PolicyNodes) :
        LET out == compileFilterRulesForNode(pol, PolicyNodes[i])
        IN  /\ filter' = [op |-> "compileFilterRulesForNode", input |-> pol,
                          node |-> PolicyNodes[i], rules |-> out.rules, err |-> out.err]
            /\ UNCHANGED <<batcher, store, noise>>

Call_PolicyFromBytes ==
    \E b \in Documents :
        LET out == PolicyFromBytes(b)
        IN  /\ filter' = [op |-> "PolicyFromBytes", input |-> b,
                          policy |-> out.policy, err |-> out.err]
            /\ UNCHANGED <<batcher, store, noise>>

NextFilter ==
    \/ Call_PolicyFromBytes
    \/ Call_compileFilterRules
    \/ Call_CompileFilterRules
    \/ Call_mergeFilterRules
    \/ Call_compileFilterRulesForNode

SpecFilter == Init /\ [][NextFilter]_vars

\* ---------------------------------------------------------- filter claims

\* no two rules of the list have the same SrcIPs and IPProto
UniqueKeys(rules) ==
    \A i, j \in 1..Len(rules) :
        (rules[i].SrcIPs = rules[j].SrcIPs /\ rules[i].IPProto = rules[j].IPProto)
            => i = j

WildcardCompiled ==
    /\ filter.op \in {"compileFilterRules", "CompileFilterRules"}
    /\ filter.err = ""
    /\ filter.input # NilACLs
    /\ \E i \in 1..Len(filter.input) :
          /\ ResolveSources(filter.input[i].src) # <<>>
          /\ \E j \in 1..Len(filter.input[i].dst) : filter.input[i].dst[j].alias = "*"

\* C20: compiling an ACL whose destination alias is the wildcard * emits one
\* DstPorts entry per port range with IP exactly "*"; the wildcard is not
\* expanded into 0.0.0.0/0 and ::/0 entries.
\* Violated by policyv2's CompileFilterRules, which resolves the wildcard like
\* every other alias.
C20_WildcardLiteral ==
    WildcardCompiled =>
        /\ \E r \in 1..Len(filter.rules) : \E k \in 1..Len(filter.rules[r].DstPorts) :
              filter.rules[r].DstPorts[k].IP = "*"
        /\ \A r \in 1..Len(filter.rules) : \A k \in 1..Len(filter.rules[r].DstPorts) :
              filter.rules[r].DstPorts[k].IP \notin {"0.0.0.0/0", "::/0"}


\* the last call compiled a policy one of whose ACLs lists autogroup:self
\* among its sources
SelfSourceCompiled ==
    /\ filter.op \in {"compileFilterRules", "compileFilterRulesForNode"}
    /\ filter.input # NilACLs
    /\ \E i \in 1..Len(filter.input) : SelfInSources(filter.input[i])

\* C21: compiling a policy in which an ACL lists autogroup:self among its
\* sources fails with an error instead of a rule list, in the global and in the
\* per-node compiler.
\* Violated by both: compileFilterRulesForNode logs errSelfInSources and goes
\* on with the next ACL, compileFilterRules never tests for it.
C21_SelfInSourcesFails ==
    SelfSourceCompiled => filter.err # "" /\ filter.rules = <<>>

\* the same for the per-node compiler alone
C21_PerNodeFails ==
    SelfSourceCompiled /\ filter.op = "compileFilterRulesForNode" => filter.err # ""

\* the same for the global compiler alone
C21_GlobalFails ==
    SelfSourceCompiled /\ filter.op = "compileFilterRules" => filter.err # ""


\* the last call parsed a HuJSON document with a group key that lacks the
\* prefix "group:"
InvalidGroupParsed ==
    /\ filter.op = "PolicyFromBytes"
    /\ filter.input.wellFormed
    /\ \E i \in 1..Len(filter.input.groups) : ~HasGroupPrefix(filter.input.groups[i].key)

\* the last call parsed a HuJSON document with a group member that lacks "@"
InvalidMemberParsed ==
    /\ filter.op = "PolicyFromBytes"
    /\ filter.input.wellFormed
    /\ \E i \in 1..Len(filter.input.groups) :
          \E j \in 1..Len(filter.input.groups[i].members) :
              ~ContainsAt(filter.input.groups[i].members[j])

\* C22: PolicyFromBytes returns an error and no Policy for a document whose
\* groups map has a key that does not start with "group:", and likewise for a
\* group member that does not contain "@".
\* Violated for the key: a document whose only fault is the key is parsed
\* without error.
C22_InvalidGroupsRejected ==
    InvalidGroupParsed \/ InvalidMemberParsed => filter.err # "" /\ filter.policy.nil

\* the member half alone, which holds
C22_InvalidMemberRejected ==
    InvalidMemberParsed => filter.err # "" /\ filter.policy.nil


\* ------------------------------------------------------ broadcast claims
\* this step is worker w's broadcast of its work item to the item's node
Broadcast(w) ==
    /\ worker[w].pc = "busy"
    /\ worker[w].item.resultCh = 0
    /\ nodes[worker[w].item.nodeID] # NoSet
    /\ worker'[w].pc = "idle"

\* the channels that took a response in this step
Accepted == {ch \in AddNodeCalls : Len(sink'[ch]) > Len(sink[ch])}

\* C23: when the send timeouts of a broadcast remove the last channel from a
\* node's connection set, the node's disconnect time is stamped in that step,
\* so that the node is no longer reported connected once the grace period is over.
\* Violated: send shortens the set and leaves b.connected alone.
C23_BroadcastStamps ==
    [][\A w \in Workers :
         LET id == worker[w].item.nodeID
         IN  (/\ Broadcast(w)
              /\ NoCallUnderWay(id)
              /\ Len(sets[nodes[id]]) > 0
              /\ Len(sets'[nodes[id]]) = 0)
             => connected'[id] = now]_vars

\* C24: a broadcast offers the response once to every channel of the node's set;
\* the channels that do not take it are removed from the set, those that take it
\* stay, in their order, with lastUsed set to the time of the send, and the
\* broadcast reports an error only if the set was not empty and no channel took
\* the response.
C24_BroadcastEffect ==
    [][\A w \in Workers :
         LET s == nodes[worker[w].item.nodeID]
             Took(e) == e.c \in Accepted
             kept == SelectSeq(sets[s], Took)
         IN  Broadcast(w) =>
               /\ Accepted \subseteq Chans(sets[s])
               /\ \A ch \in AddNodeCalls : Len(sink'[ch]) <= Len(sink[ch]) + 1
               /\ \A ch \in Accepted :
                     sink'[ch][Len(sink'[ch])].chg = worker[w].item.c.id
               /\ Len(sets'[s]) = Len(kept)
               /\ \A i \in 1..Len(kept) :
                     /\ sets'[s][i].c = kept[i].c
                     /\ sets'[s][i].lastUsed = now
               /\ worker'[w].err # "" => (Len(sets[s]) > 0 /\ Accepted = {})
               /\ (Len(sets[s]) > 0 /\ Accepted = {}) => worker'[w].err # ""]_vars

\* a Policy change was broadcast to a node with two sessions: one channel took
\* it and is still in the set, the other did not and is gone, no error
C24_Witness ==
    \E p1, p2 \in AddNodeCalls :
        /\ p1 # p2
        /\ addNode[p1].ret = "ok" /\ addNode[p2].ret = "ok"
        /\ addNode[p1].id = addNode[p2].id
        /\ now = 0
        /\ \A q \in RemoveNodeCalls : removeNode[q].pc = "idle" /\ removeNode[q].ret = "none"
        /\ \A w \in Workers : worker[w].pc = "idle" /\ worker[w].err = ""
        /\ Chans(sets[nodes[addNode[p1].id]]) = {p1}
        /\ \E i \in 1..Len(sink[p1]) : sink[p1][i].chg = 1
        /\ \A i \in 1..Len(sink[p2]) : sink[p2][i].chg # 1


\* Immediate changes outside the ordered lane: two concurrent AddWork calls with
\* Full and Policy changes for both nodes, and two workers.
NextFIFO ==
    \/ \E k \in AddWorkCalls : \E kind \in {"Full", "Policy"} :
          AddWork_call(k, Change(k, kind, 1, FALSE, TRUE))
    \/ \E k \in AddWorkCalls : AddWork_distribute(k)
    \/ \E w \in Workers : Worker_take(w)
    \/ \E w \in Workers : Worker_async(w, {"ok"})

SpecFIFO == Registered(NodeIDs) /\ [][NextFIFO]_vars

\* the position of change k's response on channel ch, 0 if it is not there
DeliveredAt(ch, k) ==
    IF \E i \in 1..Len(sink[ch]) : sink[ch][i].chg = k
    THEN CHOOSE i \in 1..Len(sink[ch]) : sink[ch][i].chg = k
    ELSE 0

\* C25: for changes outside the ordered lane, the responses delivered to a
\* node's channel are in the order in which their work items for that node were
\* put on the work channel, whatever the number of workers.
\* Violated with two workers: each takes one of two items for the same node,
\* and the one that took the later item broadcasts first.
C25_PerNodeOrder ==
    \A n \in NodeIDs : \A k1, k2 \in AddWorkCalls :
        (/\ k1 # k2
         /\ n \in addWork[k2].after
         /\ n \in addWork[k1].sent
         /\ DeliveredAt(n, k1) > 0
         /\ DeliveredAt(n, k2) > 0)
        => DeliveredAt(n, k1) < DeliveredAt(n, k2)


\* C26: on a channel registered by AddNode the first response delivered is the
\* initial full-self map of that AddNode call; no broadcast of a change reaches
\* the channel before it.
\* Violated: AddNode puts the channel into the node's set before it asks for the
\* initial map, and a worker's broadcast in between is delivered first.
C26_InitialMapFirst ==
    \A p \in AddNodeCalls :
        Len(sink[p]) > 0 =>
            /\ addNode[p].pc \in {"storeConnected", "done"}
            /\ sink[p][1].chg = FullSelf(p, addNode[p].id).id


\* Shutdown with every goroutine of the batcher: one Close call beside an AddWork
\* call, an AddNode call (which calls MapResponseFromChange), the ordered lane's
\* consumer, a worker and the ticker loop of doWork with its stale reaper.  The
\* clock stands still, so the reaper finds no connection stale.
NextShutdown ==
    \/ Close(1)
    \/ \E c \in {Change(1, "Full", 1, FALSE, TRUE),
                 Change(1, "NodeCameOnline", 1, FALSE, FALSE)} : AddWork_call(1, c)
    \/ AddWork_distribute(1)
    \/ AddWork_submit(1)
    \/ Orderer
    \/ AddNode(3, {1})
    \/ Worker(1, {"ok"})
    \/ Tick_stale
    \/ Tick_stale_filter
    \/ Tick_stop

\* Every goroutine that can take a step takes one (the Go scheduler); a select
\* with several ready cases picks one at random, so the ticker loop, whose
\* ctx.Done() case is ready again each time it comes back to its select,
\* takes that case in the end.
SpecShutdown ==
    /\ Registered(NodeIDs)
    /\ [][NextShutdown]_vars
    /\ WF_vars(Close(1))
    /\ WF_vars(AddWork_distribute(1) \/ AddWork_submit(1))
    /\ WF_vars(Orderer)
    /\ WF_vars(AddNode(3, {1}))
    /\ WF_vars(Worker(1, {"ok"}))
    /\ WF_vars(Tick_stale_filter)
    /\ SF_vars(Tick_stop)

\* Close has returned
Closed == \E z \in Closers : closer[z] = "done"

\* every goroutine of the batcher has returned, and no caller is inside AddWork
\* or MapResponseFromChange
Terminated ==
    /\ \A w \in {1} : worker[w].pc = "stopped"
    /\ ticker.pc = "stopped"
    /\ orderer.pc = "stopped"
    /\ \A k \in AddWorkCalls : addWork[k].pc \in {"idle", "done"}
    /\ \A p \in AddNodeCalls : addNode[p].pc \notin {"queueWork", "awaitResult"}

\* C27: after Close every worker, the ticker loop of doWork and the ordered
\* lane's consumer terminate in the end, and every caller blocked in AddWork or
\* MapResponseFromChange returns in the end.
\* Violated: a caller whose select in queueWork picks the send on the closed
\* channel panics instead of returning.
C27_ShutdownTerminates == Closed ~> Terminated

\* the same for the behaviours without a panic, which holds
C27_TerminatesUnlessPanic == [](panicked = "") => (Closed ~> Terminated)


\* C28: the ordered lane's consumer receives the lane's items in strictly
\* increasing order of their sequence numbers, also when AddWork is called
\* concurrently with online/offline changes.
\* Violated: a call draws its number and sends its item in two steps, and a
\* call with a higher number can send first.
C28_ConsumerInSeqOrder ==
    [][(orderer.pc = "idle" /\ orderer'.pc = "fanout")
          => orderer'.seq > orderer.seq]_vars


\* C29: a connection whose receiver takes every response offered to it is never
\* removed by the stale-connection reaper, however long no change is addressed
\* to its node.  (A connection that is in a set has taken every response offered
\* to it: one that does not is removed by the send itself.)
\* Violated: lastUsed moves only when a response is sent, and the reaper removes
\* every connection whose lastUsed is more than 30 seconds old.
C29_ReaperSparesLive ==
    [][(ticker.pc = "stale" /\ ticker'.todo # ticker.todo) =>
          \A p \in AddNodeCalls :
              (addNode[p].ret = "ok" /\ p \in Chans(sets[addNode[p].set]))
                  => p \in Chans(sets'[addNode[p].set])]_vars


\* C30: for every node id, ConnectedMap() reports true for id exactly if
\* IsConnected(id) is true in the same state, also inside the node's 45-second
\* grace period after a disconnect.
\* Violated inside the grace period: ConnectedMap stores false for every
\* timestamp, IsConnected compares the timestamp with the grace period.
C30_ConnectedMapAgrees ==
    \A id \in NodeIDs :
        (id \in DOMAIN ConnectedMap /\ ConnectedMap[id]) <=> IsConnected(id)

\* the two agree on every node that is not inside its grace period
C30_AgreeOutsideGrace ==
    \A id \in NodeIDs :
        ~(connected[id] >= 0 /\ now - connected[id] < GracePeriod /\ ~HasLiveChannel(id))
            => ((id \in DOMAIN ConnectedMap /\ ConnectedMap[id]) <=> IsConnected(id))


\* C31: between calls, every connection set of the node map that holds no
\* channel has a disconnect time recorded for its node, so that the long-offline
\* sweep, which ranges over b.connected, deletes it in the end.
\* Violated: an AddNode call that fails for a new node leaves an empty set in
\* b.nodes and nothing in b.connected; a broadcast that empties a set leaves
\* nil in b.connected.
C31_EmptySetStamped ==
    AtRest =>
        \A id \in NodeIDs :
            (nodes[id] # NoSet /\ ~hasActiveConnections(nodes[id]))
                => connected[id] >= 0


\* C32: the initial map that AddNode(id, c, version) sends on c is generated
\* for that call's capability version, also when the node has other live
\* connections registered with another version.
\* Violated: the worker generates for nc.version(), the version of the set's
\* first connection.
C32_InitialMapVersion ==
    \A p \in AddNodeCalls : \A i \in 1..Len(sink[p]) :
        sink[p][i].chg = FullSelf(p, addNode[p].id).id
            => sink[p][i].ver = CapVerOf(p)


\* C33: in every table reachable through SaveNodeRoutes, EnableRoute,
\* DisableRoute, DeleteRoute and failover, a route that is primary is also
\* enabled and advertised.
C33_PrimaryEnabledAdvertised ==
    \A i \in 1..Len(store.rows) :
        store.rows[i].primary => (store.rows[i].enabled /\ store.rows[i].advertised)


\* the nodes that own a row whose primary flag differs between the two tables
PrimaryChanged(before, after) ==
    {x.node : x \in {r \in RowSet(before) :
        \E y \in RowSet(after) : y.id = r.id /\ y.primary # r.primary}}

\* C34: FailoverRouteIfAvailable returns a PeerChanged update that lists every
\* node whose primary flag it changed, and returns no update only if it changed
\* no route, also for a node with several prefixes of which some primaries are
\* connected and others are not.
\* Violated: the early return at a connected primary drops the changes that
\* the earlier prefixes of the node have already made.
C34_UpdateListsChanges ==
    AtMostOnePrimary(store.rows) =>
    \A node \in RouteNodes, isConnected \in ConnectedMaps :
        LET res == FailoverRouteIfAvailable(store.rows, isConnected, node)
        IN  /\ \A n \in PrimaryChanged(store.rows, res.rows) :
                  \E i \in 1..Len(res.ret) : res.ret[i] = n
            /\ res.ret = <<>> => res.rows = store.rows


\* C35: SSHWaitHandler answers with an accept action only if the presented
\* token was issued by an earlier hold-and-delegate response of
\* SSHActionHandler for the same source and destination.
\* Violated: the handler checks only that the token starts with the source's
\* id; no issued token is stored or looked up.
C35_AcceptOnlyIssued ==
    \A a \in noise.admitted : a.known


\* C36: a register request whose capability version is below the minimum
\* supported version is rejected without the registration state machine being
\* invoked, so that such a request creates or modifies no node.
\* Violated: RegistrationHandler hands every decoded request to handleRegister
\* and tests the version only afterwards.
C36_UnsupportedNotRegistered ==
    \A capVer \in noise.registered : isSupportedVersion(capVer)


\* ---------------------------------------------------------------------------
\* autogroup:self as a destination.  The claims are stated over the ACLs of the
\* policy compiled last by compileFilterRulesForNode and the node it was
\* compiled for.

\* the untagged nodes of a user
OwnedBy(user) ==
    {PolicyNodes[i] : i \in {j \in 1..Len(PolicyNodes) :
        ~PolicyNodes[j].tagged /\ PolicyNodes[j].user = user}}

\* a rule one of whose destinations is the address of a node
IsSelfRule(rule) ==
    \E j \in 1..Len(rule.DstPorts), i \in 1..Len(PolicyNodes) :
        rule.DstPorts[j].IP = PolicyNodes[i].ip \o "/32"

HasSelfDest(acl) == \E i \in 1..Len(acl.dst) : acl.dst[i].alias = "autogroup:self"

\* the rules of an ACL with a self destination, compiled for node: the self
\* rule's sources are untagged nodes of the node's user named by a source of
\* the ACL, its destinations are addresses of dstNodes, the other destinations
\* have a rule of their own with all the sources, and a tagged node has no
\* self rule
SelfRuleShape(acl, node, dstNodes) ==
    LET rules == compileACLWithAutogroupSelf(acl, node).rules
        other == SelectSeq(acl.dst, LAMBDA d : d.alias # "autogroup:self")
    IN  /\ \A k \in 1..Len(rules) : IsSelfRule(rules[k]) =>
              /\ ~node.tagged
              /\ \A s \in 1..Len(rules[k].SrcIPs) :
                    \E n \in OwnedBy(node.user) :
                        /\ rules[k].SrcIPs[s] = n.ip \o "/32"
                        /\ \E a \in 1..Len(acl.src) :
                              acl.src[a] \in {"100.64.0.0/10", n.ip \o "/32"}
              /\ \A d \in 1..Len(rules[k].DstPorts) :
                    \E n \in dstNodes : rules[k].DstPorts[d].IP = n.ip \o "/32"
        /\ other # <<>> =>
              \E k \in 1..Len(rules) :
                  /\ ~IsSelfRule(rules[k])
                  /\ rules[k].SrcIPs = acl.src
                  /\ rules[k].DstPorts = destPorts(other)

SelfDestCompiled(acl) ==
    /\ filter.op = "compileFilterRulesForNode"
    /\ \E i \in 1..Len(filter.input) : filter.input[i] = acl
    /\ HasSelfDest(acl) /\ ~SelfInSources(acl)

MaxSSHRules == 2

SSHActionNames == {"accept", "check", "bogus"}
SSHSources == {<<"autogroup:member">>, <<"nobody@">>, <<"autogroup:member", "tag:server">>}
SSHDestinations ==
    {<<"autogroup:self">>, <<"tag:server">>, <<"autogroup:self", "autogroup:member">>}
SSHs == [action : SSHActionNames, src : SSHSources, dst : SSHDestinations]
SSHPolicies == UNION {[1..n -> SSHs] : n \in 0..MaxSSHRules}

\* Alias.Resolve: autogroup:member holds the untagged nodes, tag:server the
\* tagged ones, a user the policy does not know holds none
InAlias(alias, n) ==
    CASE alias = "autogroup:member" -> ~n.tagged
      [] alias = "tag:server" -> n.tagged
      [] OTHER -> FALSE

\* Aliases.Resolve: the union of the sets of the aliases
ResolveAliases(aliases) ==
    SelectSeq(PolicyNodes, LAMBDA n : \E i \in 1..Len(aliases) : InAlias(aliases[i], n))

\* node.InIPSet and IPSet.Contains
InIPSet(n, set) == \E i \in 1..Len(set) : set[i].id = n.id

\* sshAction
sshAction(accept) == [Accept |-> accept, Reject |-> ~accept, HoldAndDelegate |-> ""]
\* the action of a check rule
holdAndDelegate ==
    [Accept |-> FALSE, Reject |-> FALSE,
     HoldAndDelegate |-> "https://unused/machine/ssh/action/$SRC_NODE_ID/to/$DST_NODE_ID?local_user=$LOCAL_USER"]

\* the principals of an IP set, one for every address
principals(set) == [i \in 1..Len(set) |-> [NodeIP |-> set[i].ip]]

\* the rule appended for a principal list: root is denied unless listed
sshRule(set, action) ==
    [Principals |-> principals(set), SSHUsers |-> [root |-> ""], Action |-> action]

\* sameUser with the test for a tag left out
sameUser_tagged(n, node) == n.user = node.user

\* the test of both loops over nodes.All(): an untagged node of node's user
sameUser(n, node) == ~n.tagged /\ n.user = node.user

\* the rules one SSH rule with resolved sources srcIPs appends for node: the
\* autogroup:self block, then the block of the other destinations
sshRuleRules(rule, node, srcIPs, action) ==
    LET autogroupSelfDests == SelectSeq(rule.dst, IsSelf)
        otherDests == SelectSeq(rule.dst, LAMBDA d : ~IsSelf(d))
        sameUserNodes == SelectSeq(PolicyNodes, LAMBDA n : sameUser(n, node))
        filteredSrcSet == SelectSeq(sameUserNodes, LAMBDA n : InIPSet(n, srcIPs))
        selfRules ==
            IF /\ autogroupSelfDests # <<>> /\ ~node.tagged
               /\ InIPSet(node, sameUserNodes) /\ filteredSrcSet # <<>>
            THEN <<sshRule(filteredSrcSet, action)>>
            ELSE <<>>
        otherRules ==
            IF otherDests # <<>> /\ InIPSet(node, ResolveAliases(otherDests))
            THEN <<sshRule(srcIPs, action)>>
            ELSE <<>>
    IN  selfRules \o otherRules

\* the loop over pol.SSHs: a rule whose sources resolve to nothing is skipped
\* before its action is looked at
RECURSIVE compileSSHs(_, _, _, _)
compileSSHs(sshs, index, node, rules) ==
    IF index > Len(sshs) THEN [rules |-> rules, err |-> ""]
    ELSE LET rule == sshs[index]
             srcIPs == ResolveAliases(rule.src)
         IN  IF srcIPs = <<>> THEN compileSSHs(sshs, index + 1, node, rules)
             ELSE IF rule.action = "accept"
                  THEN compileSSHs(sshs, index + 1, node,
                           rules \o sshRuleRules(rule, node, srcIPs, sshAction(TRUE)))
             ELSE IF rule.action = "check"
                  THEN compileSSHs(sshs, index + 1, node,
                           rules \o sshRuleRules(rule, node, srcIPs, holdAndDelegate))
             ELSE [rules |-> <<>>, err |-> "parsing SSH policy, unknown action"]

\* aIsCheck, bIsCheck
isCheck(rule) == rule.Action.HoldAndDelegate # ""

\* sshRuleCmp with the two results exchanged
sshRuleCmp_reversed(a, b) ==
    CASE isCheck(a) /\ ~isCheck(b) -> 1
      [] ~isCheck(a) /\ isCheck(b) -> -1
      [] OTHER -> 0

\* the comparison of the final sort: a check rule before a rule that is none
sshRuleCmp(a, b) ==
    CASE isCheck(a) /\ ~isCheck(b) -> -1
      [] ~isCheck(a) /\ isCheck(b) -> 1
      [] OTHER -> 0

\* slices.SortStableFunc, as a stable insertion sort: an element is put
\* before the first one it compares less than
RECURSIVE insertStable(_, _)
insertStable(sorted, x) ==
    IF sorted = <<>> THEN <<x>>
    ELSE IF sshRuleCmp(x, Head(sorted)) < 0 THEN <<x>> \o sorted
    ELSE <<Head(sorted)>> \o insertStable(Tail(sorted), x)

RECURSIVE SortStableFunc(_, _)
SortStableFunc(rules, sorted) ==
    IF rules = <<>> THEN sorted
    ELSE SortStableFunc(Tail(rules), insertStable(sorted, Head(rules)))

\* compileSSHPolicy: nil is the nil *tailcfg.SSHPolicy
compileSSHPolicy(pol, node) ==
    IF pol = <<>> THEN [nil |-> TRUE, rules |-> <<>>, err |-> ""]
    ELSE LET c == compileSSHs(pol, 1, node, <<>>)
         IN  IF c.err # "" THEN [nil |-> TRUE, rules |-> <<>>, err |-> c.err]
             ELSE [nil |-> FALSE, rules |-> SortStableFunc(c.rules, <<>>), err |-> ""]

\* the SSH policy of one policy is compiled for one node
InitSSHPolicy ==
    /\ NewBatcher /\ store = NoRoutes /\ noise = NoRequest
    /\ \E pol \in SSHPolicies, i \in 1..Len(PolicyNodes) :
        filter = [op |-> "call", input |-> pol, node |-> PolicyNodes[i],
                  nil |-> TRUE, rules |-> <<>>, err |-> ""]

Call_compileSSHPolicy ==
    /\ filter.op = "call"
    /\ LET out == compileSSHPolicy(filter.input, filter.node)
       IN  filter' = [filter EXCEPT !.op = "compileSSHPolicy", !.nil = out.nil,
                                    !.rules = out.rules, !.err = out.err]
    /\ UNCHANGED <<batcher, store, noise>>

NextSSHPolicy == Call_compileSSHPolicy

SpecSSHPolicy == InitSSHPolicy /\ [][NextSSHPolicy]_vars


\* ---------------------------------------------------------------------------
\* the compiled SSH policy

SSHCompiled == filter.op = "compileSSHPolicy" /\ filter.err = ""

\* the action compileSSHs hands to sshRuleRules for a rule
ActionOf(rule) == IF rule.action = "accept" THEN sshAction(TRUE) ELSE holdAndDelegate

\* what an SSH rule's autogroup:self destinations add for node: the rules it
\* compiles to are those of its other destinations, preceded by rules whose
\* principals are addresses of untagged nodes of node's user; none precede for
\* a tagged node
SelfPrincipalsOwned(rule, node) ==
    LET srcIPs == ResolveAliases(rule.src)
        all == sshRuleRules(rule, node, srcIPs, ActionOf(rule))
        rest == sshRuleRules(
                    [rule EXCEPT !.dst = SelectSeq(rule.dst, LAMBDA d : ~IsSelf(d))],
                    node, srcIPs, ActionOf(rule))
        own == Len(all) - Len(rest)
    IN  /\ own >= 0
        /\ SubSeq(all, own + 1, Len(all)) = rest
        /\ node.tagged => own = 0
        /\ \A k \in 1..own : \A i \in 1..Len(all[k].Principals) :
              \E n \in OwnedBy(node.user) : all[k].Principals[i].NodeIP = n.ip

C39_UnknownActionFails ==
    filter.op = "compileSSHPolicy" =>
        /\ (\E i \in 1..Len(filter.input) :
                filter.input[i].action \notin {"accept", "check"})
              => filter.err # ""
        /\ \A k \in 1..Len(filter.rules) :
              filter.rules[k].Action.Accept \/ filter.rules[k].Action.HoldAndDelegate # ""

\* the part of C39 the code keeps: an unknown action of a rule whose sources
\* resolve, with no unknown action skipped before it, is an error, and every
\* emitted rule accepts or holds and delegates
C39_UnknownActionOfResolved ==
    filter.op = "compileSSHPolicy" =>
        /\ (\E i \in 1..Len(filter.input) :
                /\ filter.input[i].action \notin {"accept", "check"}
                /\ ResolveAliases(filter.input[i].src) # <<>>)
              => filter.err # ""
        /\ \A k \in 1..Len(filter.rules) :
              filter.rules[k].Action.Accept \/ filter.rules[k].Action.HoldAndDelegate # ""


\* the rules as the loop over pol.SSHs generated them, before the final sort
Generated == compileSSHs(filter.input, 1, filter.node, <<>>).rules

KindCheck(rule) == rule.Action.HoldAndDelegate # ""
KindAccept(rule) == rule.Action.HoldAndDelegate = ""

\* C40: in the SSH policy compiled for a node every check (hold-and-delegate)
\* rule precedes every accept rule, and the rules of one kind keep the order
\* in which they were generated.
C40_ChecksFirstStable ==
    SSHCompiled =>
        /\ \A i, j \in 1..Len(filter.rules) :
              (KindCheck(filter.rules[i]) /\ KindAccept(filter.rules[j])) => i < j
        /\ SelectSeq(filter.rules, KindCheck) = SelectSeq(Generated, KindCheck)
        /\ SelectSeq(filter.rules, KindAccept) = SelectSeq(Generated, KindAccept)

\* an accept rule with two compiled rules of different principals was
\* generated before a check rule, and the check rule is now the first
C40_Witness ==
    /\ SSHCompiled
    /\ Len(filter.rules) = 3
    /\ KindAccept(Generated[1]) /\ KindAccept(Generated[2]) /\ KindCheck(Generated[3])
    /\ Generated[1].Principals # Generated[2].Principals
    /\ filter.rules = <<Generated[3], Generated[1], Generated[2]>>

====
